---- MODULE Spec2Model ----
(***************************************************************************)
(* Model of the Vertex AI inference container                              *)
(* (src/docker/vertexai-middleware/predictor.py): the Flask handler of     *)
(* POST /predict, the lazily loaded model singleton guarded by model_lock, *)
(* and the feature preparation it shares with the training pipeline        *)
(* (src/pipelines/components/build/ml_inference_data.py); and of a run of  *)
(* the training pipeline (src/pipelines/pipeline.py): its tasks, the       *)
(* training step (components/train.py, model/xgb_model.py) function by     *)
(* function, and the evaluation step (components/evaluate.py); and of the  *)
(* preparation of the training data (train.py): the table, the composite   *)
(* features, the label map and the sample weights, next to the schema      *)
(* lists of predictor.py, train.py and components/preprocess.py.           *)
(***************************************************************************)
EXTENDS Integers, Sequences, FiniteSets, TLC

(* ---------------------------------------------------------------------- *)
(* Bounds of the model                                                     *)
(* ---------------------------------------------------------------------- *)

\* number of request threads of the serving process
NReq == 3
\* longest batch a client sends under "instances"
MaxBatch == 2
\* how often the storage behind the model location changes during a run
MaxStorageChanges == 1

Req == 1..NReq

(* ---------------------------------------------------------------------- *)
(* Feature schema                                                          *)
(* ---------------------------------------------------------------------- *)

EXPECTED_FEATURE_ORDER ==
    << "poorhlth", "physhlth", "genhlth", "diffwalk", "diffalon",
       "checkup1", "diffdres", "addepev3", "acedeprs", "sdlonely", "lsatisfy",
       "emtsuprt", "decide", "cdsocia1", "cddiscu1", "cimemlo1", "smokday2",
       "alcday4", "marijan1", "exeroft1", "usenow3", "firearm5", "income3",
       "educa", "employ1", "sex", "marital", "adult", "rrclass3", "qstlang",
       "state", "veteran3", "medcost1", "sdhbills", "sdhemply", "sdhfood1",
       "sdhstre1", "sdhutils", "sdhtrnsp", "cdhous1", "foodstmp", "pregnant",
       "asthnow", "havarth4", "chcscnc1", "chcocnc1", "diabete4", "chccopd3",
       "cholchk3", "bpmeds1", "bphigh6", "cvdstrk3", "cvdcrhd4", "chckdny2",
       "cholmed3" >>

\* the literal of the arity check in predict()
ARITY == 55

Range(s) == { s[i] : i \in 1..Len(s) }

IndexOf(s, x) == CHOOSE i \in 1..Len(s) : s[i] = x

\* train.py: the target and the columns the training query selects
TARGET == "ment14d"

FEATURE_IDS ==
    << "poorhlth", "physhlth", "genhlth", "diffwalk", "diffalon", "checkup1",
       "diffdres", "addepev3", "acedeprs", "sdlonely", "lsatisfy",
       "emtsuprt", "decide", "cdsocia1", "cddiscu1", "cimemlo1", "smokday2",
       "alcday4", "marijan1", "exeroft1", "usenow3", "firearm5", "income3",
       "educa", "employ1", "sex", "marital", "adult", "rrclass3", "qstlang",
       "state", "veteran3", "medcost1", "sdhbills", "sdhemply", "sdhfood1",
       "sdhstre1", "sdhutils", "sdhtrnsp", "cdhous1", "foodstmp", "pregnant",
       "asthnow", "havarth4", "chcscnc1", "chcocnc1", "diabete4", "chccopd3",
       "cholchk3", "bpmeds1", "bphigh6", "cvdstrk3", "cvdcrhd4", "chckdny2",
       "cholmed3", "ment14d" >>

\* preprocess.py: the columns of the source file, each name as the
\* sequence of its characters
FEATURE_NAMES ==
    << << "P", "O", "O", "R", "H", "L", "T", "H" >>,
       << "P", "H", "Y", "S", "H", "L", "T", "H" >>,
       << "G", "E", "N", "H", "L", "T", "H" >>,
       << "D", "I", "F", "F", "W", "A", "L", "K" >>,
       << "D", "I", "F", "F", "A", "L", "O", "N" >>,
       << "C", "H", "E", "C", "K", "U", "P", "1" >>,
       << "D", "I", "F", "F", "D", "R", "E", "S" >>,
       << "A", "D", "D", "E", "P", "E", "V", "3" >>,
       << "A", "C", "E", "D", "E", "P", "R", "S" >>,
       << "S", "D", "L", "O", "N", "E", "L", "Y" >>,
       << "L", "S", "A", "T", "I", "S", "F", "Y" >>,
       << "E", "M", "T", "S", "U", "P", "R", "T" >>,
       << "D", "E", "C", "I", "D", "E" >>,
       << "C", "D", "S", "O", "C", "I", "A", "1" >>,
       << "C", "D", "D", "I", "S", "C", "U", "1" >>,
       << "C", "I", "M", "E", "M", "L", "O", "1" >>,
       << "S", "M", "O", "K", "D", "A", "Y", "2" >>,
       << "A", "L", "C", "D", "A", "Y", "4" >>,
       << "M", "A", "R", "I", "J", "A", "N", "1" >>,
       << "E", "X", "E", "R", "O", "F", "T", "1" >>,
       << "U", "S", "E", "N", "O", "W", "3" >>,
       << "F", "I", "R", "E", "A", "R", "M", "5" >>,
       << "I", "N", "C", "O", "M", "E", "3" >>,
       << "E", "D", "U", "C", "A" >>,
       << "E", "M", "P", "L", "O", "Y", "1" >>,
       << "S", "E", "X" >>,
       << "M", "A", "R", "I", "T", "A", "L" >>,
       << "A", "D", "U", "L", "T" >>,
       << "R", "R", "C", "L", "A", "S", "S", "3" >>,
       << "Q", "S", "T", "L", "A", "N", "G" >>,
       << "_", "S", "T", "A", "T", "E" >>,
       << "V", "E", "T", "E", "R", "A", "N", "3" >>,
       << "M", "E", "D", "C", "O", "S", "T", "1" >>,
       << "S", "D", "H", "B", "I", "L", "L", "S" >>,
       << "S", "D", "H", "E", "M", "P", "L", "Y" >>,
       << "S", "D", "H", "F", "O", "O", "D", "1" >>,
       << "S", "D", "H", "S", "T", "R", "E", "1" >>,
       << "S", "D", "H", "U", "T", "I", "L", "S" >>,
       << "S", "D", "H", "T", "R", "N", "S", "P" >>,
       << "C", "D", "H", "O", "U", "S", "1" >>,
       << "F", "O", "O", "D", "S", "T", "M", "P" >>,
       << "P", "R", "E", "G", "N", "A", "N", "T" >>,
       << "A", "S", "T", "H", "N", "O", "W" >>,
       << "H", "A", "V", "A", "R", "T", "H", "4" >>,
       << "C", "H", "C", "S", "C", "N", "C", "1" >>,
       << "C", "H", "C", "O", "C", "N", "C", "1" >>,
       << "D", "I", "A", "B", "E", "T", "E", "4" >>,
       << "C", "H", "C", "C", "O", "P", "D", "3" >>,
       << "C", "H", "O", "L", "C", "H", "K", "3" >>,
       << "B", "P", "M", "E", "D", "S", "1" >>,
       << "B", "P", "H", "I", "G", "H", "6" >>,
       << "C", "V", "D", "S", "T", "R", "K", "3" >>,
       << "C", "V", "D", "C", "R", "H", "D", "4" >>,
       << "C", "H", "C", "K", "D", "N", "Y", "2" >>,
       << "C", "H", "O", "L", "M", "E", "D", "3" >>,
       << "_", "M", "E", "N", "T", "1", "4", "D" >> >>

\* the characters of each column name of the feature store
Spelling ==
    [ poorhlth |-> << "p", "o", "o", "r", "h", "l", "t", "h" >>,
      physhlth |-> << "p", "h", "y", "s", "h", "l", "t", "h" >>,
      genhlth |-> << "g", "e", "n", "h", "l", "t", "h" >>,
      diffwalk |-> << "d", "i", "f", "f", "w", "a", "l", "k" >>,
      diffalon |-> << "d", "i", "f", "f", "a", "l", "o", "n" >>,
      checkup1 |-> << "c", "h", "e", "c", "k", "u", "p", "1" >>,
      diffdres |-> << "d", "i", "f", "f", "d", "r", "e", "s" >>,
      addepev3 |-> << "a", "d", "d", "e", "p", "e", "v", "3" >>,
      acedeprs |-> << "a", "c", "e", "d", "e", "p", "r", "s" >>,
      sdlonely |-> << "s", "d", "l", "o", "n", "e", "l", "y" >>,
      lsatisfy |-> << "l", "s", "a", "t", "i", "s", "f", "y" >>,
      emtsuprt |-> << "e", "m", "t", "s", "u", "p", "r", "t" >>,
      decide |-> << "d", "e", "c", "i", "d", "e" >>,
      cdsocia1 |-> << "c", "d", "s", "o", "c", "i", "a", "1" >>,
      cddiscu1 |-> << "c", "d", "d", "i", "s", "c", "u", "1" >>,
      cimemlo1 |-> << "c", "i", "m", "e", "m", "l", "o", "1" >>,
      smokday2 |-> << "s", "m", "o", "k", "d", "a", "y", "2" >>,
      alcday4 |-> << "a", "l", "c", "d", "a", "y", "4" >>,
      marijan1 |-> << "m", "a", "r", "i", "j", "a", "n", "1" >>,
      exeroft1 |-> << "e", "x", "e", "r", "o", "f", "t", "1" >>,
      usenow3 |-> << "u", "s", "e", "n", "o", "w", "3" >>,
      firearm5 |-> << "f", "i", "r", "e", "a", "r", "m", "5" >>,
      income3 |-> << "i", "n", "c", "o", "m", "e", "3" >>,
      educa |-> << "e", "d", "u", "c", "a" >>,
      employ1 |-> << "e", "m", "p", "l", "o", "y", "1" >>,
      sex |-> << "s", "e", "x" >>,
      marital |-> << "m", "a", "r", "i", "t", "a", "l" >>,
      adult |-> << "a", "d", "u", "l", "t" >>,
      rrclass3 |-> << "r", "r", "c", "l", "a", "s", "s", "3" >>,
      qstlang |-> << "q", "s", "t", "l", "a", "n", "g" >>,
      state |-> << "s", "t", "a", "t", "e" >>,
      veteran3 |-> << "v", "e", "t", "e", "r", "a", "n", "3" >>,
      medcost1 |-> << "m", "e", "d", "c", "o", "s", "t", "1" >>,
      sdhbills |-> << "s", "d", "h", "b", "i", "l", "l", "s" >>,
      sdhemply |-> << "s", "d", "h", "e", "m", "p", "l", "y" >>,
      sdhfood1 |-> << "s", "d", "h", "f", "o", "o", "d", "1" >>,
      sdhstre1 |-> << "s", "d", "h", "s", "t", "r", "e", "1" >>,
      sdhutils |-> << "s", "d", "h", "u", "t", "i", "l", "s" >>,
      sdhtrnsp |-> << "s", "d", "h", "t", "r", "n", "s", "p" >>,
      cdhous1 |-> << "c", "d", "h", "o", "u", "s", "1" >>,
      foodstmp |-> << "f", "o", "o", "d", "s", "t", "m", "p" >>,
      pregnant |-> << "p", "r", "e", "g", "n", "a", "n", "t" >>,
      asthnow |-> << "a", "s", "t", "h", "n", "o", "w" >>,
      havarth4 |-> << "h", "a", "v", "a", "r", "t", "h", "4" >>,
      chcscnc1 |-> << "c", "h", "c", "s", "c", "n", "c", "1" >>,
      chcocnc1 |-> << "c", "h", "c", "o", "c", "n", "c", "1" >>,
      diabete4 |-> << "d", "i", "a", "b", "e", "t", "e", "4" >>,
      chccopd3 |-> << "c", "h", "c", "c", "o", "p", "d", "3" >>,
      cholchk3 |-> << "c", "h", "o", "l", "c", "h", "k", "3" >>,
      bpmeds1 |-> << "b", "p", "m", "e", "d", "s", "1" >>,
      bphigh6 |-> << "b", "p", "h", "i", "g", "h", "6" >>,
      cvdstrk3 |-> << "c", "v", "d", "s", "t", "r", "k", "3" >>,
      cvdcrhd4 |-> << "c", "v", "d", "c", "r", "h", "d", "4" >>,
      chckdny2 |-> << "c", "h", "c", "k", "d", "n", "y", "2" >>,
      cholmed3 |-> << "c", "h", "o", "l", "m", "e", "d", "3" >>,
      ment14d |-> << "m", "e", "n", "t", "1", "4", "d" >> ]

Spell(name) == Spelling[name]

UpperCase ==
    << "A", "B", "C", "D", "E", "F", "G", "H", "I", "J", "K", "L", "M",
       "N", "O", "P", "Q", "R", "S", "T", "U", "V", "W", "X", "Y", "Z" >>

LowerCase ==
    << "a", "b", "c", "d", "e", "f", "g", "h", "i", "j", "k", "l", "m",
       "n", "o", "p", "q", "r", "s", "t", "u", "v", "w", "x", "y", "z" >>

\* str.lower(): a capital letter becomes its small one, digits and '_' stay
Lower(s) ==
    [i \in 1..Len(s) |->
        IF \E k \in 1..Len(UpperCase) : UpperCase[k] = s[i]
        THEN LowerCase[CHOOSE k \in 1..Len(UpperCase) : UpperCase[k] = s[i]]
        ELSE s[i]]

LStrip_Nothing(s, c) == s

\* str.lstrip(c): every leading c is removed
RECURSIVE LStrip(_, _)
LStrip(s, c) ==
    IF s /= << >> /\ Head(s) = c THEN LStrip(Tail(s), c) ELSE s

\* preprocess.py: col.lower().lstrip('_')
Normalize(col) == LStrip(Lower(col), "_")

(* ---------------------------------------------------------------------- *)
(* JSON payloads                                                           *)
(*                                                                         *)
(* An instance is a JSON object (form "dict": names[i] is the i-th key in  *)
(* document order, vals[i] its value) or a JSON array (form "list": vals   *)
(* are the positional values, names is empty).  Values are integer codes.  *)
(* A JSON string is the sequence of its characters, so that Python's       *)
(* substring test can be computed.                                         *)
(* ---------------------------------------------------------------------- *)

NoInstance == [form |-> "list", names |-> << >>, vals |-> << >>]

Body(kind) ==
    [ctype |-> "application/json", kind |-> kind, num |-> 0, text |-> << >>,
     elems |-> << >>, keys |-> << >>, features |-> NoInstance,
     instances |-> << >>]

\* the value of feature number i in the synthetic record number seed
Code(seed, i) == ((i * seed) % 4) + 1

Reverse(s) == [i \in 1..Len(s) |-> s[Len(s) + 1 - i]]

\* all 55 names, in canonical order
Canon(seed) ==
    [form |-> "dict", names |-> EXPECTED_FEATURE_ORDER,
     vals |-> [i \in 1..Len(EXPECTED_FEATURE_ORDER) |-> Code(seed, i)]]

\* the same mapping as Canon(seed), keys in the opposite document order
Shuffled(seed) ==
    [form |-> "dict", names |-> Reverse(Canon(seed).names),
     vals |-> Reverse(Canon(seed).vals)]

\* the last name (cholmed3) is missing: 54 entries
Short(seed) ==
    [form |-> "dict",
     names |-> SubSeq(Canon(seed).names, 1, Len(EXPECTED_FEATURE_ORDER) - 1),
     vals |-> SubSeq(Canon(seed).vals, 1, Len(EXPECTED_FEATURE_ORDER) - 1)]

\* 55 entries, with the unknown key _state in the place of state
Renamed(seed) ==
    [form |-> "dict",
     names |-> [i \in 1..Len(EXPECTED_FEATURE_ORDER) |->
                  IF EXPECTED_FEATURE_ORDER[i] = "state" THEN "_state"
                  ELSE EXPECTED_FEATURE_ORDER[i]],
     vals |-> Canon(seed).vals]

\* all 55 names and one unknown key more: 56 entries
Extra(seed) ==
    [form |-> "dict", names |-> Append(Canon(seed).names, "_ment14d"),
     vals |-> Append(Canon(seed).vals, 1)]

\* 55 positional values, no names
Positional(seed) ==
    [form |-> "list", names |-> << >>, vals |-> Canon(seed).vals]

\* 54 positional values
PositionalShort(seed) ==
    [form |-> "list", names |-> << >>, vals |-> Short(seed).vals]

DictInstances ==
    << Canon(1), Canon(2), Shuffled(1), Short(1), Renamed(1), Extra(1) >>

ListInstances == << Positional(1), PositionalShort(1) >>

Single(inst) ==
    [Body("obj") EXCEPT !.keys = << "features" >>, !.features = inst]

Batch(insts) ==
    [Body("obj") EXCEPT !.keys = << "instances" >>, !.instances = insts]

RECURSIVE Power(_, _)
Power(k, n) == IF n = 0 THEN 1 ELSE k * Power(k, n - 1)

\* the batches of n instances drawn from insts, one payload each
BatchesOfLen(insts, n) ==
    [b \in 1..Power(Len(insts), n) |->
       Batch([i \in 1..n |->
                insts[(((b - 1) \div Power(Len(insts), i - 1)) % Len(insts)) + 1]])]

\* the batches of up to MaxBatch instances; a batch holds one form
RECURSIVE BatchesUpTo(_, _)
BatchesUpTo(insts, n) ==
    IF n = 0 THEN BatchesOfLen(insts, 0)
    ELSE BatchesUpTo(insts, n - 1) \o BatchesOfLen(insts, n)

Chars_features == << "f", "e", "a", "t", "u", "r", "e", "s" >>
Chars_instances == << "i", "n", "s", "t", "a", "n", "c", "e", "s" >>

OtherPayloads ==
    << [Body("obj") EXCEPT !.ctype = "text/plain", !.keys = << "features" >>,
                           !.features = Canon(1)],
       Body("none"),
       Body("num"),
       [Body("num") EXCEPT !.num = 5],
       Body("str"),
       [Body("str") EXCEPT !.text = << "h", "i" >>],
       [Body("str") EXCEPT !.text = << "n", "o" >> \o Chars_features],
       Body("arr"),
       [Body("arr") EXCEPT !.elems = << "poorhlth" >>],
       [Body("arr") EXCEPT !.elems = << "features" >>],
       [Body("arr") EXCEPT !.elems = << "instances" >>],
       Body("obj"),
       [Body("obj") EXCEPT !.keys = << "inputs" >>],
       [Body("obj") EXCEPT !.keys = << "features", "instances" >>,
                           !.features = Canon(2),
                           !.instances = << Canon(1), Canon(1) >>] >>

\* every payload a client sends; a request is the index of its payload
Payloads ==
    OtherPayloads
    \o [i \in 1..Len(DictInstances) |-> Single(DictInstances[i])]
    \o [i \in 1..Len(ListInstances) |-> Single(ListInstances[i])]
    \o BatchesUpTo(DictInstances, MaxBatch)
    \o BatchesUpTo(ListInstances, MaxBatch)

AllPayloads == 1..Len(Payloads)

\* the requests of the concurrent workload: well-formed ones and one that
\* is rejected before the model is touched
CorePayloads ==
    { i \in AllPayloads :
        Payloads[i] \in { Single(Canon(1)),
                          Batch(<< Shuffled(1), Canon(2) >>),
                          Batch(<< Canon(1), Short(1) >>) } }

(* ---------------------------------------------------------------------- *)
(* pandas: DataFrame(data).astype(int) and df[EXPECTED_FEATURE_ORDER]      *)
(*                                                                         *)
(* A frame is [cols, rows]: rows[i][j] is the cell of row i in column      *)
(* cols[j].  A cell an instance does not supply is NaN.  An operation that *)
(* raises returns its exception type in exc ("" when it returns normally). *)
(* ---------------------------------------------------------------------- *)

NaN == -1

\* the column labels of a frame built from positional rows: 0, 1, 2, ...
PosLabel(i) == ToString(i - 1)

\* cols, then the names that are not columns yet, in their order
AppendNew(cols, names) ==
    cols \o SelectSeq(names, LAMBDA n : n \notin Range(cols))

\* the union of the keys of the rows, in order of first appearance
RECURSIVE UnionCols(_, _)
UnionCols(data, cols) ==
    IF data = << >> THEN cols
    ELSE UnionCols(Tail(data), AppendNew(cols, Head(data).names))

MaxLen(data) ==
    CHOOSE n \in { Len(data[i].vals) : i \in 1..Len(data) } :
        \A i \in 1..Len(data) : Len(data[i].vals) <= n

Cell(inst, col, j) ==
    IF inst.form = "dict"
    THEN IF col \in Range(inst.names)
         THEN inst.vals[IndexOf(inst.names, col)] ELSE NaN
    ELSE IF j <= Len(inst.vals) THEN inst.vals[j] ELSE NaN

DataFrame(data) ==
    LET cols == IF data[1].form = "dict" THEN UnionCols(data, << >>)
                ELSE [j \in 1..MaxLen(data) |-> PosLabel(j)]
    IN  [cols |-> cols,
         rows |-> [i \in 1..Len(data) |->
                     [j \in 1..Len(cols) |-> Cell(data[i], cols[j], j)]]]

HasNaN(df) ==
    \E i \in 1..Len(df.rows) : \E j \in 1..Len(df.cols) : df.rows[i][j] = NaN

AsTypeInt_FillsZero(df) ==
    [exc |-> "",
     df |-> [df EXCEPT !.rows =
               [i \in 1..Len(df.rows) |->
                  [j \in 1..Len(df.cols) |->
                     IF df.rows[i][j] = NaN THEN 0 ELSE df.rows[i][j]]]]]

\* .astype(int): integer cells are kept, a NaN cell cannot be converted
AsTypeInt(df) ==
    IF HasNaN(df) THEN [exc |-> "ValueError", df |-> df]
    ELSE [exc |-> "", df |-> df]

SelectColumns_NoReorder(df, order) ==
    IF \E k \in 1..Len(order) : order[k] \notin Range(df.cols)
    THEN [exc |-> "KeyError", df |-> df]
    ELSE [exc |-> "", df |-> df]

\* df[order]: the columns named, in that order; every name must be a column
SelectColumns(df, order) ==
    IF \E k \in 1..Len(order) : order[k] \notin Range(df.cols)
    THEN [exc |-> "KeyError", df |-> df]
    ELSE [exc |-> "",
          df |-> [cols |-> order,
                  rows |-> [i \in 1..Len(df.rows) |->
                              [k \in 1..Len(order) |->
                                 df.rows[i][IndexOf(df.cols, order[k])]]]]]

Column(df, name) ==
    [i \in 1..Len(df.rows) |-> df.rows[i][IndexOf(df.cols, name)]]

\* df[name] = values: replaces the column if it exists, appends it if not
SetColumn(df, name, values) ==
    IF name \in Range(df.cols)
    THEN [df EXCEPT !.rows =
             [i \in 1..Len(df.rows) |->
                [df.rows[i] EXCEPT ![IndexOf(df.cols, name)] = values[i]]]]
    ELSE [cols |-> Append(df.cols, name),
          rows |-> [i \in 1..Len(df.rows) |-> Append(df.rows[i], values[i])]]

(* ---------------------------------------------------------------------- *)
(* MentalHealthData: the composite features                                *)
(* ---------------------------------------------------------------------- *)

\* the raw columns the composite features read
CompositeInputs ==
    { "genhlth", "physhlth", "income3", "educa",
      "emtsuprt", "addepev3", "poorhlth" }

\* Mental_Health_Composite is the mean of three integer columns; the model
\* keeps it exactly, in thirds (the sum of the three).
IntegrateCompositeFeatures(df) ==
    LET pmi == [i \in 1..Len(df.rows) |->
                  Column(df, "genhlth")[i] * Column(df, "physhlth")[i]]
        d1  == SetColumn(df, "Physical_Mental_Interaction", pmi)
        iei == [i \in 1..Len(df.rows) |->
                  Column(d1, "income3")[i] * Column(d1, "educa")[i]]
        d2  == SetColumn(d1, "Income_Education_Interaction", iei)
        mhc == [i \in 1..Len(df.rows) |->
                  Column(d2, "emtsuprt")[i] + Column(d2, "addepev3")[i]
                  + Column(d2, "poorhlth")[i]]
    IN  SetColumn(d2, "Mental_Health_Composite", mhc)

\* MentalHealthData(df).get_data(): a copy of df with the composites
MentalHealthData(df) ==
    IF CompositeInputs \subseteq Range(df.cols)
    THEN [exc |-> "", df |-> IntegrateCompositeFeatures(df)]
    ELSE [exc |-> "KeyError", df |-> df]

PreprocessInput(data) ==
    LET a == AsTypeInt(DataFrame(data))
        s == SelectColumns(a.df, EXPECTED_FEATURE_ORDER)
    IN  IF a.exc /= "" THEN a
        ELSE IF s.exc /= "" THEN s
        ELSE MentalHealthData(s.df)

(* ---------------------------------------------------------------------- *)
(* The training data: the table of the feature store, the labels and the   *)
(* sample weights                                                          *)
(* ---------------------------------------------------------------------- *)

\* the longest table the feature store returns, and the records it holds
MaxRows == 4
MaxSeed == 2

\* the codes of _MENT14D: 0 days, 1-13 days, 14+ days, unsure
Codes == { 1, 2, 3, 9 }

\* dict.get of a key the dictionary does not hold
NoLabel == -1

label_mapping_Collapsing(c) == IF c = 9 THEN 2 ELSE c - 1

\* train.py line 171: label_mapping = {1: 0, 2: 1, 3: 2, 9: 3}, read with
\* label_mapping.get
label_mapping(c) ==
    CASE c = 1 -> 0
      [] c = 2 -> 1
      [] c = 3 -> 2
      [] c = 9 -> 3
      [] OTHER -> NoLabel

\* np.vectorize(label_mapping.get)(y), y not empty
target_label_mapping(y) == [i \in 1..Len(y) |-> label_mapping(y[i])]

\* client.query(...).to_dataframe(): one row per record, the columns in the
\* order of the SELECT list; record i of the table holds the feature values
\* Code(seed + i, .) and the label y[i]
TrainingTable(seed, y) ==
    [cols |-> FEATURE_IDS,
     rows |-> [i \in 1..Len(y) |->
                 [j \in 1..Len(FEATURE_IDS) |->
                    IF FEATURE_IDS[j] = TARGET THEN y[i]
                    ELSE Code(seed + i, j)]]]

Drop_Nothing(df, name) == [exc |-> "", df |-> df]

\* df.drop(columns=[name]): a new frame without the column
Drop(df, name) ==
    IF name \notin Range(df.cols) THEN [exc |-> "KeyError", df |-> df]
    ELSE LET keep == SelectSeq([j \in 1..Len(df.cols) |-> j],
                               LAMBDA j : df.cols[j] /= name)
         IN  [exc |-> "",
              df |-> [cols |-> [k \in 1..Len(keep) |-> df.cols[keep[k]]],
                      rows |-> [i \in 1..Len(df.rows) |->
                                  [k \in 1..Len(keep) |->
                                     df.rows[i][keep[k]]]]]]

\* the request a client builds from the records of a table: one JSON object
\* per row, the feature names as its keys
Instances(df) ==
    LET features == SelectSeq(df.cols, LAMBDA c : c /= TARGET) IN
    [i \in 1..Len(df.rows) |->
        [form |-> "dict", names |-> features,
         vals |-> [k \in 1..Len(features) |->
                     df.rows[i][IndexOf(df.cols, features[k])]]]]

\* the same request with the keys of every object in the opposite order
Reordered(data) ==
    [i \in 1..Len(data) |->
        [data[i] EXCEPT !.names = Reverse(@), !.vals = Reverse(@)]]

copy_SameObject(h, ref) == [heap |-> h, ref |-> ref]

\* df.copy(): a new table with the same columns and cells
copy(h, ref) == [heap |-> Append(h, h[ref]), ref |-> Len(h) + 1]

\* MentalHealthData(df): the object's table is a copy of df, and the
\* composite columns are written into that copy
NewMentalHealthData(h, ref) ==
    LET c == copy(h, ref) IN
    [heap |-> [c.heap EXCEPT ![c.ref] = IntegrateCompositeFeatures(@)],
     ref |-> c.ref]

\* train_test_split(y, test_size = tenths / 10): the test part has
\* ceil(test_size * n) rows, the training part the other ones
train_test_split(y, tenths) ==
    LET n_test == (tenths * Len(y) + 9) \div 10 IN
    [train |-> SubSeq(y, 1, Len(y) - n_test),
     test |-> SubSeq(y, Len(y) - n_test + 1, Len(y))]

\* the members of a set of numbers, smallest first
RECURSIVE Sorted(_)
Sorted(S) ==
    IF S = {} THEN << >>
    ELSE LET least == CHOOSE x \in S : \A z \in S : x <= z
         IN  << least >> \o Sorted(S \ { least })

\* np.unique(y)
Unique(y) == Sorted(Range(y))

Count(y, c) == Cardinality({ i \in 1..Len(y) : y[i] = c })

\* a weight is kept exactly, as numerator and denominator
Frac(n, d) == << n, d >>
SameFrac(a, b) == a[1] * b[2] = b[1] * a[2]
LessEqFrac(a, b) == a[1] * b[2] <= b[1] * a[2]

\* compute_class_weight('balanced', classes, y): for each class, in the
\* order of classes, n_samples / (n_classes * count of the class)
compute_class_weight(classes, y) ==
    [k \in 1..Len(classes) |->
        Frac(Len(y), Len(classes) * Count(y, classes[k]))]

\* dict(enumerate(w)): the keys are the positions 0, 1, ... of the weights
Enumerate(w) == [k \in 0..(Len(w) - 1) |-> w[k + 1]]

\* train.py lines 189-196: the weight of every row of the training labels
SampleWeight(y) ==
    LET classes == Unique(y)
        class_weights == compute_class_weight(classes, y)
        class_weights_dict == Enumerate(class_weights)
    IN  IF \E i \in 1..Len(y) : y[i] \notin DOMAIN class_weights_dict
        THEN [exc |-> "KeyError", w |-> << >>]
        ELSE [exc |-> "",
              w |-> [i \in 1..Len(y) |-> class_weights_dict[y[i]]]]

(* ---------------------------------------------------------------------- *)
(* The trained model.  The booster is opaque; all that is modelled is that *)
(* it scores each row of the matrix by the positions of its values.        *)
(* ---------------------------------------------------------------------- *)

\* the sum of k * row[k] for k in lo..hi
RECURSIVE WeightedSum(_, _, _)
WeightedSum(row, lo, hi) ==
    IF lo > hi THEN 0
    ELSE IF lo = hi THEN lo * row[lo]
    ELSE LET mid == (lo + hi) \div 2
         IN  WeightedSum(row, lo, mid) + WeightedSum(row, mid + 1, hi)

RowScore(row) == WeightedSum(row, 1, Len(row)) % 97

\* _predict: model.predict(xgb.DMatrix(mh.get_data())), one entry per row
ModelPredict(df) == [i \in 1..Len(df.rows) |-> RowScore(df.rows[i])]

(* ---------------------------------------------------------------------- *)
(* predict(): the steps before the model is touched                        *)
(* ---------------------------------------------------------------------- *)

\* a JSON value of a response: absent, or a value of a JSON type
Absent == [type |-> "absent", text |-> ""]
JsonString(t) == [type |-> "string", text |-> t]

Resp(status, success, error, prediction) ==
    [status |-> status, success |-> success, error |-> error,
     prediction |-> prediction, health |-> Absent]

ServerError_NoStatus ==
    Resp(200, JsonString("false"), "Server error occurred", << >>)

\* the except branch of predict()
ServerError == Resp(500, JsonString("false"), "Server error occurred", << >>)

ClientError(status, msg) == Resp(status, Absent, msg, << >>)

Success(predictions) == Resp(200, JsonString("true"), "", predictions)

Healthy_OnlyWhenLoaded(loaded) ==
    IF loaded THEN [Resp(200, Absent, "", << >>)
                      EXCEPT !.health = JsonString("healthy")]
    ELSE [Resp(503, Absent, "", << >>)
            EXCEPT !.health = JsonString("loading")]

\* health_check: jsonify({"status": "healthy"}), 200, whether or not the
\* model is in memory
Healthy(loaded) ==
    [Resp(200, Absent, "", << >>) EXCEPT !.health = JsonString("healthy")]

Contains(s, t) ==
    \E i \in 1..(Len(s) - Len(t) + 1) : SubSeq(s, i, i + Len(t) - 1) = t

KeyChars(key) == IF key = "features" THEN Chars_features ELSE Chars_instances

\* Python's truth value of the parsed body: None, 0, "", [] and {} are false
Falsy(p) ==
    \/ p.kind = "none"
    \/ p.kind = "num" /\ p.num = 0
    \/ p.kind = "str" /\ p.text = << >>
    \/ p.kind = "arr" /\ p.elems = << >>
    \/ p.kind = "obj" /\ p.keys = << >>

\* key in input_data: a key of an object, an element of an array, a
\* substring of a string (a number is not iterable, see Extract)
Member(p, key) ==
    CASE p.kind = "obj" -> key \in Range(p.keys)
      [] p.kind = "arr" -> key \in Range(p.elems)
      [] p.kind = "str" -> Contains(p.text, KeyChars(key))
      [] OTHER -> FALSE

\* lines 222-230: the list of instances of a parsed, truthy body
Extract(p) ==
    IF p.kind = "num"
    THEN [exc |-> "TypeError", shape |-> TRUE, data |-> << >>]
    ELSE IF Member(p, "features")
    THEN IF p.kind = "obj"
         THEN [exc |-> "", shape |-> TRUE, data |-> << p.features >>]
         ELSE [exc |-> "TypeError", shape |-> TRUE, data |-> << >>]
    ELSE IF Member(p, "instances")
    THEN IF p.kind = "obj"
         THEN [exc |-> "", shape |-> TRUE, data |-> p.instances]
         ELSE [exc |-> "TypeError", shape |-> TRUE, data |-> << >>]
    ELSE [exc |-> "", shape |-> FALSE, data |-> << >>]

\* lines 232-234: len(input_data[0]) != 55
ArityMismatch(data) == Len(data[1].vals) /= ARITY

Respond(resp) == [stage |-> "respond", resp |-> resp, df |-> << >>]

\* lines 204-237 of predict(): the response of a request that ends before
\* the model, or the processed data of one that goes on to the model
Handle(p) ==
    IF p.ctype /= "application/json"
    THEN Respond(ClientError(415,
             "Unsupported Media Type. Please use 'application/json'"))
    ELSE IF Falsy(p)
    THEN Respond(ClientError(400, "No input data provided."))
    ELSE LET e == Extract(p) IN
         IF e.exc /= "" THEN Respond(ServerError)
         ELSE IF ~e.shape
         THEN Respond(ClientError(400, "Invalid input data format."))
         ELSE IF e.data = << >> THEN Respond(ServerError)
         ELSE IF ArityMismatch(e.data)
         THEN Respond(ClientError(400, "Invalid number of parameters."))
         ELSE LET mh == PreprocessInput(e.data) IN
              IF mh.exc /= "" THEN Respond(ServerError)
              ELSE [stage |-> "model", resp |-> ServerError, df |-> mh.df]

\* Handle of every payload
Handled == [i \in AllPayloads |-> Handle(Payloads[i])]

\* _predict of every payload that reaches the model
Predicted ==
    [i \in AllPayloads |->
       IF Handled[i].stage = "model" THEN ModelPredict(Handled[i].df)
       ELSE << >>]

(* ---------------------------------------------------------------------- *)
(* The storage behind the model location                                   *)
(* ---------------------------------------------------------------------- *)

MODEL_URI == "gs://mlops-gcs-bucket/models/xgb-model/"

Blob(name, ext) == [name |-> name, ext |-> ext]

NoBlob == Blob("", "")

Folder == Blob("models/xgb-model/", "")
Readme == Blob("models/xgb-model/README.txt", ".txt")
ModelA == Blob("models/xgb-model/model.joblib", ".joblib")
ModelB == Blob("models/xgb-model/model-v2.joblib", ".joblib")

Storage(reachable, blobs, intact) ==
    [reachable |-> reachable, blobs |-> blobs, intact |-> intact]

StorageStates ==
    { Storage(TRUE, << Folder, ModelA >>, TRUE),
      Storage(TRUE, << Readme, ModelB, ModelA >>, TRUE),
      Storage(FALSE, << Folder, ModelA >>, TRUE),
      Storage(TRUE, << >>, TRUE),
      Storage(TRUE, << Folder, Readme >>, TRUE),
      Storage(TRUE, << Folder, ModelA >>, FALSE) }

\* b.name.endswith(tuple(exts))
EndsWith(b, exts) == b.ext \in exts

FirstMatch_AnyFile(blobs, exts) ==
    IF blobs = << >> THEN NoBlob ELSE Head(blobs)

\* next((b for b in blobs if b.name.endswith(tuple(exts))), None)
RECURSIVE FirstMatch(_, _)
FirstMatch(blobs, exts) ==
    IF blobs = << >> THEN NoBlob
    ELSE IF EndsWith(Head(blobs), exts) THEN Head(blobs)
    ELSE FirstMatch(Tail(blobs), exts)

(* ---------------------------------------------------------------------- *)
(* The serving process                                                     *)
(* ---------------------------------------------------------------------- *)

VARIABLES
    xgb_model,       \* the module global: 0 is None, k the k-th object
                     \* joblib.load returned
    model_lock,      \* the thread holding model_lock, Unlocked if none
    GCS_MODEL_PATH,  \* the module global, "" when AIP_STORAGE_URI is unset
    storage,         \* what the bucket holds and whether it answers
    changes,         \* how often the storage has changed
    workload,        \* the payloads the client of each thread may send
    pc,              \* where each thread is in predict()
    request,         \* the request each thread handles: the index of its
                     \* payload in Payloads, 0 before it arrives
    model_blob,      \* _load_model's local: the artifact it selected
    model,           \* predict()'s local: what _load_model returned
    response,        \* the response each thread sent
    failed,          \* which step of the request raised ("" if none)
    listed,          \* number of bucket listings so far
    downloaded,      \* number of artifact downloads started so far
    deserialized,    \* number of joblib.load calls that returned
    AIP_STORAGE_URI, \* the environment variable, "" when it is unset
    raised,          \* the exception the except branch logged last
    artifact         \* the blob the object in xgb_model was read from

\* the state of a pipeline run and of the training and evaluation steps
VARIABLES
    task,            \* the state of each task of the pipeline run
    trainer,         \* the file whose train_model runs, "" before a call
    stack,           \* the functions of the training step being executed
    tpc,             \* where the innermost of them is
    exc,             \* the exception being raised, "" if none
    ret,             \* what the function that returned last returned
    evals,           \* the candidates the optimizer has evaluated
    files,           \* the output artifacts of the training step
    result,          \* how the outermost call of the training step ended
    epc,             \* where the evaluation step is
    metrics,         \* what the evaluation step has computed and logged
    best,            \* optimizer.max: the best evaluation so far
    last,            \* optimizer.res[-1]: the evaluation made last
    h_params,        \* what _hyper_parameter_tuning returned to train_model
    fit_params,      \* the parameters the final model was trained with
    ingested         \* the load jobs the feature-store table has received

\* the state of the hyperparameter search and of its result
tuneVars == << best, last, h_params, fit_params >>

runVars ==
    << task, trainer, stack, tpc, exc, ret, evals, files, result, epc,
       metrics, tuneVars, ingested >>

\* the tables and the labels the training data is made of
VARIABLES
    heap,            \* the tables in memory: heap[ref] is a frame
    env,             \* the table each name refers to, 0 while it has none
    labels,          \* the label vectors, as read and as mapped
    sample_weight,   \* the weights of the training rows
    dpc              \* the step of the data preparation that comes next

dataVars == << heap, env, labels, sample_weight, dpc >>

serveVars ==
    << xgb_model, model_lock, GCS_MODEL_PATH, storage, changes, workload, pc,
       request, model_blob, model, response, failed, listed, downloaded,
       deserialized, AIP_STORAGE_URI, raised, artifact >>

vars == << serveVars, runVars, dataVars >>

\* the tasks of run_mental_health_pipeline, in the order they are created
PipelineSteps ==
    << "preprocess_data", "train_model", "evaluate_model", "build_container",
       "register_model", "deploy_model" >>

\* .after(...): the task each task waits for
Parents(step) ==
    CASE step = "preprocess_data" -> {}
      [] step = "train_model" -> { "preprocess_data" }
      [] step = "evaluate_model" -> { "train_model" }
      [] step = "build_container" -> { "evaluate_model" }
      [] step = "register_model" -> { "build_container" }
      [] step = "deploy_model" -> { "register_model" }

\* the tasks whose Output the enclosing `with dsl.If(... == True)` groups
\* test: the dsl.If of lines 149, 162 and 179 is the condition of a Python
\* if statement and opens no group
Guards(step) ==
    CASE step = "preprocess_data" -> {}
      [] step = "train_model" -> { "preprocess_data" }
      [] OTHER -> { "preprocess_data", "train_model" }

\* a task has returned: "True" and "False" are its Output
Returned == { "True", "False" }

\* a value a function of the training step returns
NoValue == [kind |-> "unset", model |-> 0, x_test |-> 0]
None == [kind |-> "None", model |-> 0, x_test |-> 0]
Params == [kind |-> "dict", model |-> 0, x_test |-> 0]
Pair(m, x) == [kind |-> "tuple", model |-> m, x_test |-> x]

\* no candidate has been evaluated, no configuration has been returned
NoEval == [target |-> 0, params |-> << >>, effective |-> << >>]
NoParams == << >>

\* an output artifact is absent, cut short by a failed write, or complete
NoFiles == [model |-> "absent", xtest |-> "absent", ytest |-> "absent"]

\* no pipeline run has been submitted and no function has been called
InitRun ==
    /\ task = [t \in Range(PipelineSteps) |-> "pending"]
    /\ trainer = ""
    /\ stack = << >>
    /\ tpc = ""
    /\ exc = ""
    /\ ret = NoValue
    /\ evals = 0
    /\ files = NoFiles
    /\ result = ""
    /\ epc = ""
    /\ metrics = "none"
    /\ best = NoEval
    /\ last = NoEval
    /\ h_params = NoParams
    /\ fit_params = NoParams
    /\ ingested = 0

\* no name is bound, no label has been read, no weight computed
NoEnv ==
    [df |-> 0, training_df |-> 0, twice |-> 0, again |-> 0, served |-> 0,
     X |-> 0]
NoLabels ==
    [y |-> << >>, y_train |-> << >>, y_val |-> << >>, y_test |-> << >>,
     _y_train |-> << >>, _y_val |-> << >>, _y_test |-> << >>]
NoWeights == [exc |-> "unset", w |-> << >>]

\* no table has been fetched
NoData ==
    /\ heap = << >>
    /\ env = NoEnv
    /\ labels = NoLabels
    /\ sample_weight = NoWeights
    /\ dpc = ""

Unlocked == 0

NoResponse == Resp(0, Absent, "", << >>)

\* the serving process has started and has received nothing
InitServing(w) ==
    /\ xgb_model = 0
    /\ model_lock = Unlocked
    /\ AIP_STORAGE_URI \in { "", "gs://vertex-staging/model/" }
    /\ GCS_MODEL_PATH = AIP_STORAGE_URI
    /\ storage \in StorageStates
    /\ changes = 0
    /\ workload = w
    /\ pc = [r \in Req |-> "idle"]
    /\ request = [r \in Req |-> 0]
    /\ model_blob = [r \in Req |-> NoBlob]
    /\ model = [r \in Req |-> 0]
    /\ response = [r \in Req |-> NoResponse]
    /\ failed = [r \in Req |-> ""]
    /\ listed = 0
    /\ downloaded = 0
    /\ deserialized = 0
    /\ raised = ""
    /\ artifact = NoBlob

InitWith(w) == InitServing(w) /\ InitRun /\ NoData

\* every thread serves a request of the concurrent workload
Init == InitWith([r \in Req |-> CorePayloads])

\* one thread serves a request with any payload, a second one a
\* well-formed request
InitRequest ==
    InitWith([r \in Req |->
                IF r = 1 THEN AllPayloads
                ELSE IF r = 2
                THEN { i \in AllPayloads : Payloads[i] = Single(Canon(1)) }
                ELSE {}])

LockFree_Ignored == TRUE

\* Lock.acquire() returns only while no thread holds the lock
LockFree == model_lock = Unlocked

NeedsLoad_Always == TRUE

ResolveLocation_AlwaysDefault(path) == MODEL_URI

\* lines 91-94: the fallback replaces a location that is not set
ResolveLocation(path) == IF path = "" THEN MODEL_URI ELSE path

\* the test of _load_model: if xgb_model is None
NeedsLoad == xgb_model = 0

WithExit_StillHeld(r) == r

\* the lock after the with block is left, normally or by an exception
WithExit(r) == Unlocked

Rejected_Never(h) == FALSE

\* the handler has returned a response before line 240 is reached
Rejected(h) == h.stage = "respond"

\* lines 204-237: a request arrives and runs up to _preprocess_input
Receive(r) ==
    /\ pc[r] = "idle"
    /\ \E p \in workload[r] :
         LET h == Handled[p] IN
         /\ request' = [request EXCEPT ![r] = p]
         /\ IF Rejected(h)
            THEN /\ response' = [response EXCEPT ![r] = h.resp]
                 /\ pc' = [pc EXCEPT ![r] = "done"]
            ELSE /\ pc' = [pc EXCEPT ![r] = "acquire"]
                 /\ UNCHANGED response
    /\ UNCHANGED << xgb_model, model_lock, GCS_MODEL_PATH, storage, changes,
                    workload, model_blob, model, failed, listed, downloaded,
                    deserialized,
                    AIP_STORAGE_URI, raised, artifact >>
    /\ UNCHANGED << runVars, dataVars >>

\* line 240: with model_lock
Acquire(r) ==
    /\ pc[r] = "acquire"
    /\ LockFree
    /\ model_lock' = r
    /\ pc' = [pc EXCEPT ![r] = "load"]
    /\ UNCHANGED << xgb_model, GCS_MODEL_PATH, storage, changes, workload,
                    request, model_blob, model, response, failed, listed,
                    downloaded, deserialized,
                    AIP_STORAGE_URI, raised, artifact >>
    /\ UNCHANGED << runVars, dataVars >>

\* an exception inside the with block: the lock is released on the way out
\* and the except branch answers
Raise(r, step, e) ==
    /\ model_lock' = WithExit(r)
    /\ failed' = [failed EXCEPT ![r] = step]
    /\ raised' = e
    /\ response' = [response EXCEPT ![r] = ServerError]
    /\ pc' = [pc EXCEPT ![r] = "done"]

\* GET /health: the handler touches neither the lock nor the model
HealthCheck(r) ==
    /\ pc[r] = "idle"
    /\ response' = [response EXCEPT ![r] = Healthy(xgb_model /= 0)]
    /\ pc' = [pc EXCEPT ![r] = "done"]
    /\ UNCHANGED << xgb_model, model_lock, GCS_MODEL_PATH, storage, changes,
                    workload, request, model_blob, model, failed, listed,
                    downloaded, deserialized, AIP_STORAGE_URI, raised,
                    artifact >>
    /\ UNCHANGED << runVars, dataVars >>

\* _load_model with the model in memory: line 90 is false, line 132 returns
LoadCached(r) ==
    /\ pc[r] = "load"
    /\ ~NeedsLoad
    /\ model' = [model EXCEPT ![r] = xgb_model]
    /\ pc' = [pc EXCEPT ![r] = "predict"]
    /\ UNCHANGED << xgb_model, model_lock, GCS_MODEL_PATH, storage, changes,
                    workload, request, model_blob, response, failed, listed,
                    downloaded, deserialized,
                    AIP_STORAGE_URI, raised, artifact >>
    /\ UNCHANGED << runVars, dataVars >>

\* _load_model, lines 90-123: resolve the location, list it, select
ListArtifacts(r) ==
    /\ pc[r] = "load"
    /\ NeedsLoad
    /\ GCS_MODEL_PATH' = ResolveLocation(GCS_MODEL_PATH)
    /\ listed' = listed + 1
    /\ LET found == FirstMatch(storage.blobs, { ".joblib" }) IN
       IF ~storage.reachable
       THEN /\ Raise(r, "load", "ServiceUnavailable")
            /\ UNCHANGED model_blob
       ELSE IF storage.blobs = << >>
       THEN /\ Raise(r, "load", "No files found in the bucket.")
            /\ UNCHANGED model_blob
       ELSE IF found = NoBlob
       THEN /\ Raise(r, "load", "No model file found in the bucket.")
            /\ UNCHANGED model_blob
       ELSE /\ model_blob' = [model_blob EXCEPT ![r] = found]
            /\ pc' = [pc EXCEPT ![r] = "download"]
            /\ UNCHANGED << model_lock, failed, response, raised >>
    /\ UNCHANGED << xgb_model, storage, changes, workload, request, model,
                    downloaded, deserialized,
                    AIP_STORAGE_URI, artifact >>
    /\ UNCHANGED << runVars, dataVars >>

\* _load_model, lines 126-132: download the artifact and deserialize it
Download(r) ==
    /\ pc[r] = "download"
    /\ downloaded' = downloaded + 1
    /\ IF ~(storage.reachable /\ model_blob[r] \in Range(storage.blobs))
       THEN /\ Raise(r, "load", "NotFound")
            /\ UNCHANGED << xgb_model, model, deserialized, artifact >>
       ELSE IF ~storage.intact
       THEN /\ Raise(r, "load", "UnpicklingError")
            /\ UNCHANGED << xgb_model, model, deserialized, artifact >>
       ELSE /\ deserialized' = deserialized + 1
            /\ xgb_model' = deserialized + 1
            /\ artifact' = model_blob[r]
            /\ model' = [model EXCEPT ![r] = deserialized + 1]
            /\ pc' = [pc EXCEPT ![r] = "predict"]
            /\ UNCHANGED << model_lock, failed, response, raised >>
    /\ UNCHANGED << GCS_MODEL_PATH, storage, changes, workload, request,
                    model_blob, listed,
                    AIP_STORAGE_URI >>
    /\ UNCHANGED << runVars, dataVars >>

\* lines 245-253: score, leave the with block, answer
Predict(r) ==
    /\ pc[r] = "predict"
    /\ model_lock' = WithExit(r)
    /\ response' = [response EXCEPT ![r] = Success(Predicted[request[r]])]
    /\ pc' = [pc EXCEPT ![r] = "done"]
    /\ UNCHANGED << xgb_model, GCS_MODEL_PATH, storage, changes, workload,
                    request, model_blob, model, failed, listed, downloaded,
                    deserialized,
                    AIP_STORAGE_URI, raised, artifact >>
    /\ UNCHANGED << runVars, dataVars >>

\* line 245 raises: the booster rejects the matrix or runs out of memory
PredictFails(r) ==
    /\ pc[r] = "predict"
    /\ Raise(r, "score", "XGBoostError")
    /\ UNCHANGED << xgb_model, GCS_MODEL_PATH, storage, changes, workload,
                    request, model_blob, model, listed, downloaded,
                    deserialized,
                    AIP_STORAGE_URI, artifact >>
    /\ UNCHANGED << runVars, dataVars >>

\* the bucket changes: an artifact is uploaded or removed, the network
\* goes away or comes back
StorageChange ==
    /\ changes < MaxStorageChanges
    /\ changes' = changes + 1
    /\ storage' \in StorageStates \ { storage }
    /\ UNCHANGED << xgb_model, model_lock, GCS_MODEL_PATH, workload, pc,
                    request, model_blob, model, response, failed, listed,
                    downloaded, deserialized,
                    AIP_STORAGE_URI, raised, artifact >>
    /\ UNCHANGED << runVars, dataVars >>

Next ==
    \/ \E r \in Req : HealthCheck(r)
    \/ \E r \in Req : Receive(r)
    \/ \E r \in Req : Acquire(r)
    \/ \E r \in Req : LoadCached(r)
    \/ \E r \in Req : ListArtifacts(r)
    \/ \E r \in Req : Download(r)
    \/ \E r \in Req : Predict(r)
    \/ \E r \in Req : PredictFails(r)
    \/ StorageChange

Spec == Init /\ [][Next]_vars

SpecRequest == InitRequest /\ [][Next]_vars

\* a step of a thread that is past validation
Step(r) ==
    \/ Acquire(r)
    \/ LoadCached(r)
    \/ ListArtifacts(r)
    \/ Download(r)
    \/ Predict(r)
    \/ PredictFails(r)

(* ---------------------------------------------------------------------- *)
(* The model store accessor                                                *)
(* ---------------------------------------------------------------------- *)

InLock == { "load", "download", "predict" }

\* thread r has answered a POST /predict
Answered(r) == pc[r] = "done" /\ request[r] /= 0

\* thread r has answered a GET /health
Probed(r) == pc[r] = "done" /\ request[r] = 0

\* thread r has answered a POST /predict with predictions
Scored(r) == Answered(r) /\ response[r].status = 200

LoadFailures == Cardinality({ r \in Req : failed[r] = "load" })

\* C1: with the model unloaded and N requests at the predict step, the
\* artifact is listed, downloaded and deserialized once: the threads inside
\* the with block are at most the one holding the lock, a listing or
\* download beyond the first belongs to a load that failed, the object is
\* deserialized at most once, and every request that scores uses that one
\* object.
C1_LoadedExactlyOnce ==
    /\ \A r \in Req : pc[r] \in InLock => model_lock = r
    /\ deserialized <= 1
    /\ listed <= LoadFailures + 1
    /\ downloaded <= listed
    /\ \A r \in Req :
         (pc[r] = "predict" \/ Scored(r)) =>
            /\ deserialized = 1
            /\ xgb_model = 1
            /\ model[r] = 1
            /\ LoadFailures = 0 => (listed = 1 /\ downloaded = 1)

\* one thread has loaded the model, all others wait for the lock
C1_Witness ==
    \E r \in Req :
       /\ pc[r] = "predict"
       /\ listed = 1 /\ downloaded = 1 /\ deserialized = 1
       /\ \A q \in Req \ { r } : pc[q] = "acquire"

\* C2: once the model is loaded requests contend on nothing: a request
\* inside the scoring call does not hold the lock.
C2_ScoringHoldsNoLock ==
    \A r \in Req : pc[r] = "predict" => model_lock /= r

\* what the code does instead: scoring is serialized by the lock
ScoringSerialized ==
    \A r, q \in Req : (pc[r] = "predict" /\ pc[q] = "predict") => r = q

\* C3: a failed load releases the lock and leaves xgb_model None: the lock
\* is only ever held by a thread inside the with block, the step in which a
\* load fails ends with the lock free and the model unloaded, and a later
\* load lists again and succeeds when the artifact is there.
C3_FailedLoadReleases ==
    /\ [](model_lock /= Unlocked => pc[model_lock] \in InLock)
    /\ [][\A r \in Req :
            /\ (failed[r] = "" /\ failed'[r] = "load") =>
                  (model_lock' = Unlocked /\ xgb_model' = 0)
            /\ (pc[r] = "load" /\ pc'[r] /= "load" /\ xgb_model = 0) =>
                  listed' = listed + 1
            /\ (/\ pc[r] = "load" /\ pc'[r] /= "load" /\ xgb_model = 0
                /\ storage.reachable
                /\ FirstMatch(storage.blobs, { ".joblib" }) /= NoBlob) =>
                  pc'[r] = "download"
            /\ (/\ pc[r] = "download" /\ pc'[r] /= "download"
                /\ storage.reachable /\ storage.intact
                /\ model_blob[r] \in Range(storage.blobs)) =>
                  (xgb_model' /= 0 /\ pc'[r] = "predict")]_vars

\* a load failed, and a later request loaded the model and was answered
C3_Witness ==
    \E r, q \in Req :
       /\ failed[r] = "load"
       /\ Scored(q)
       /\ xgb_model /= 0

\* C4: once xgb_model is set it is never assigned again, nothing is listed,
\* downloaded or deserialized any more, and _load_model returns it.
C4_LoadedIsFinal ==
    [][xgb_model /= 0 =>
         /\ xgb_model' = xgb_model
         /\ listed' = listed
         /\ downloaded' = downloaded
         /\ deserialized' = deserialized
         /\ \A r \in Req :
              (pc[r] = "load" /\ pc'[r] /= "load") =>
                 (pc'[r] = "predict" /\ model'[r] = xgb_model)]_vars

\* two requests were answered from the object loaded once
C4_Witness ==
    \E r, q \in Req :
       /\ r /= q
       /\ Scored(r) /\ Scored(q)
       /\ model[r] = xgb_model /\ model[q] = xgb_model
       /\ listed = 1

\* C10: a request whose load or scoring failed is answered with 500 and
\* "Server error occurred" and no longer holds the lock, and the process
\* goes on serving: while a request waits for the lock or is inside the with
\* block, some thread can take its next step, whatever failed before.
C10_FailureIsA500 ==
    /\ \A r \in Req :
         failed[r] /= "" =>
            /\ pc[r] = "done"
            /\ response[r].status = 500
            /\ response[r].error = "Server error occurred"
            /\ response[r].prediction = << >>
            /\ model_lock /= r
    /\ (\E r \in Req : pc[r] \notin { "idle", "done" }) =>
          ENABLED (\E r \in Req : Step(r))

\* the load of one request failed, then scoring failed for a second, and a
\* third was answered with predictions
C10_Witness ==
    \E r, q, t \in Req :
       /\ failed[r] = "load"
       /\ failed[q] = "score"
       /\ Scored(t)

(* ---------------------------------------------------------------------- *)
(* The inference request pipeline                                          *)
(* ---------------------------------------------------------------------- *)


\* the payload thread r received
Sent(r) == Payloads[request[r]]

HasKey(p, key) == p.kind = "obj" /\ key \in Range(p.keys)

\* the instances of a request: the one under "features", else the ones
\* under "instances"
InstancesOf(p) ==
    IF HasKey(p, "features") THEN << p.features >>
    ELSE IF HasKey(p, "instances") THEN p.instances
    ELSE << >>

Entries(inst) == Len(inst.vals)

SuppliesEveryName(inst) ==
    inst.form = "dict" /\ Range(EXPECTED_FEATURE_ORDER) \subseteq Range(inst.names)

\* a feature record: the 55 names of the schema, each once, and no other
FeatureRecord(inst) == SuppliesEveryName(inst) /\ Entries(inst) = 55

ValidRequest(p) ==
    /\ p.ctype = "application/json"
    /\ InstancesOf(p) /= << >>
    /\ \A i \in 1..Len(InstancesOf(p)) : FeatureRecord(InstancesOf(p)[i])

Value(inst, name) == inst.vals[IndexOf(inst.names, name)]

\* the feature vector of a record: its values in schema order, then the
\* three composites
FeatureVector(inst) ==
    [k \in 1..Len(EXPECTED_FEATURE_ORDER) |->
       Value(inst, EXPECTED_FEATURE_ORDER[k])]
    \o << Value(inst, "genhlth") * Value(inst, "physhlth"),
          Value(inst, "income3") * Value(inst, "educa"),
          Value(inst, "emtsuprt") + Value(inst, "addepev3")
          + Value(inst, "poorhlth") >>

\* C5: a valid batch of N instances whose load and scoring did not fail is
\* answered with 200 and N predictions, entry i the model's output for the
\* feature vector of instance i; a "features" payload gets one entry.
C5_OnePredictionPerInstance ==
    \A r \in Req :
       (Answered(r) /\ ValidRequest(Sent(r)) /\ failed[r] = "") =>
          LET insts == InstancesOf(Sent(r)) IN
          /\ response[r].status = 200
          /\ Len(response[r].prediction) = Len(insts)
          /\ \A i \in 1..Len(insts) :
                response[r].prediction[i] = RowScore(FeatureVector(insts[i]))

\* a batch of two records with different outputs, the first with its keys
\* out of schema order, was answered
C5_Witness ==
    \E r \in Req :
       /\ Answered(r) /\ ValidRequest(Sent(r))
       /\ response[r].status = 200
       /\ Len(response[r].prediction) = 2
       /\ response[r].prediction[1] /= response[r].prediction[2]
       /\ InstancesOf(Sent(r))[1].names /= EXPECTED_FEATURE_ORDER

\* C6: a batch in which some instance lacks a required feature name is
\* rejected whole: it never reaches the model, and its answer is an error
\* without any prediction entry.
C6_BatchRejectedWhole ==
    \A r \in Req :
       (/\ request[r] /= 0
        /\ \E i \in 1..Len(InstancesOf(Sent(r))) :
              ~SuppliesEveryName(InstancesOf(Sent(r))[i])) =>
          /\ Answered(r)
          /\ response[r].status >= 400
          /\ response[r].error /= ""
          /\ response[r].prediction = << >>
          /\ model[r] = 0

\* a batch whose first record is well-formed and whose second lacks a name
\* was rejected
C6_Witness ==
    \E r \in Req :
       /\ Answered(r)
       /\ Len(InstancesOf(Sent(r))) = 2
       /\ FeatureRecord(InstancesOf(Sent(r))[1])
       /\ ~SuppliesEveryName(InstancesOf(Sent(r))[2])
       /\ response[r].status >= 400

\* C7: the arity check covers every instance: a batch with an instance, the
\* first or a later one, that does not carry 55 values is answered with 400
\* "Invalid number of parameters." and no prediction.
C7_ArityOfEveryInstance ==
    \A r \in Req :
       (/\ Answered(r)
        /\ Sent(r).ctype = "application/json"
        /\ \E i \in 1..Len(InstancesOf(Sent(r))) :
              Entries(InstancesOf(Sent(r))[i]) /= 55) =>
          /\ response[r].status = 400
          /\ response[r].error = "Invalid number of parameters."
          /\ response[r].prediction = << >>

\* what the code checks: the arity of the first instance alone
ArityOfFirstInstance ==
    \A r \in Req :
       (/\ Answered(r)
        /\ Sent(r).ctype = "application/json"
        /\ InstancesOf(Sent(r)) /= << >>
        /\ Entries(InstancesOf(Sent(r))[1]) /= 55) =>
          /\ response[r].status = 400
          /\ response[r].error = "Invalid number of parameters."

\* C8: a parsed, non-empty payload of any JSON type that has neither the
\* key "features" nor the key "instances" is answered with 400.
C8_UnknownShapeIs400 ==
    \A r \in Req :
       (/\ Answered(r)
        /\ Sent(r).ctype = "application/json"
        /\ ~Falsy(Sent(r))
        /\ ~HasKey(Sent(r), "features")
        /\ ~HasKey(Sent(r), "instances")) =>
          response[r].status = 400

\* C9: a request whose instances carry 55 entries but not every schema
\* name is answered with a 4xx status and an error message.
C9_MissingNameIs4xx ==
    \A r \in Req :
       (/\ Answered(r)
        /\ Sent(r).ctype = "application/json"
        /\ InstancesOf(Sent(r)) /= << >>
        /\ \A i \in 1..Len(InstancesOf(Sent(r))) :
              Entries(InstancesOf(Sent(r))[i]) = 55
        /\ \E i \in 1..Len(InstancesOf(Sent(r))) :
              ~SuppliesEveryName(InstancesOf(Sent(r))[i])) =>
          /\ response[r].status \in 400..499
          /\ response[r].error /= ""

(* ---------------------------------------------------------------------- *)
(* The answers of the container                                            *)
(* ---------------------------------------------------------------------- *)

\* C11: the success field of every answer of POST /predict that carries one
\* is a JSON boolean: true with status 200, false with status 500.
C11_SuccessIsBoolean ==
    \A r \in Req :
       (Answered(r) /\ response[r].status \in { 200, 500 }) =>
          response[r].success.type = "boolean"

\* what the code sends: the JSON strings "true" and "false"
SuccessIsString ==
    \A r \in Req :
       (Answered(r) /\ response[r].status \in { 200, 500 }) =>
          /\ response[r].success.type = "string"
          /\ response[r].success.text =
                (IF response[r].status = 200 THEN "true" ELSE "false")

\* C12: GET /health is answered with 200 and {"status": "healthy"} in every
\* state of the model store: a thread that has not taken a request can
\* answer it whoever holds the lock, and answering it changes neither the
\* lock nor the model nor what has been listed, downloaded or deserialized.
C12_HealthAlwaysAnswers ==
    /\ [](\A r \in Req : pc[r] = "idle" => ENABLED HealthCheck(r))
    /\ [](\A r \in Req :
            Probed(r) =>
               /\ response[r].status = 200
               /\ response[r].health = JsonString("healthy"))
    /\ [][\A r \in Req :
            (~Probed(r) /\ Probed(r)') =>
               UNCHANGED << xgb_model, model_lock, GCS_MODEL_PATH, model,
                            model_blob, listed, downloaded, deserialized,
                            artifact, failed >>]_vars

\* a probe was answered while the load of one request had failed and a
\* second request holds the lock, its load in progress
C12_Witness ==
    \E r, q, t \in Req :
       /\ Probed(r) /\ response[r].status = 200
       /\ failed[t] = "load"
       /\ pc[q] = "download" /\ model_lock = q /\ xgb_model = 0

\* the listing holds no artifact with the model extension
NoModelFile(blobs) ==
    \A i \in 1..Len(blobs) : blobs[i].ext /= ".joblib"

NoArtifactFound ==
    { "No files found in the bucket.", "No model file found in the bucket." }

\* C13: when the location lists nothing, or nothing that ends in .joblib,
\* the load fails with one of the two ValueErrors of lines 114 and 123:
\* nothing is downloaded or deserialized and xgb_model stays None.
C13_NoArtifactFailsLoad ==
    [][\A r \in Req :
            (/\ pc[r] = "load" /\ pc'[r] /= "load" /\ xgb_model = 0
             /\ storage.reachable /\ NoModelFile(storage.blobs)) =>
               /\ failed'[r] = "load"
               /\ raised' \in NoArtifactFound
               /\ (raised' = "No files found in the bucket.")
                     <=> (storage.blobs = << >>)
               /\ response'[r].status = 500
               /\ model'[r] = 0
               /\ downloaded' = downloaded
               /\ deserialized' = deserialized
               /\ xgb_model' = 0
               /\ artifact' = artifact]_vars

\* two loads failed, the later one on a listing with files but no model
\* file, and nothing was ever downloaded
C13_Witness ==
    \E r, q \in Req :
       /\ r /= q /\ failed[r] = "load" /\ failed[q] = "load"
       /\ raised = "No model file found in the bucket."
       /\ storage.blobs /= << >>
       /\ listed = 2 /\ downloaded = 0 /\ xgb_model = 0

\* the location AIP_STORAGE_URI configures, the fallback when it does not
Configured ==
    IF AIP_STORAGE_URI = "" THEN MODEL_URI ELSE AIP_STORAGE_URI

\* blob b is the first of the listing that ends in .joblib
FirstModelFile(blobs, b) ==
    \E i \in 1..Len(blobs) :
       /\ blobs[i] = b
       /\ b.ext = ".joblib"
       /\ \A j \in 1..(i - 1) : blobs[j].ext /= ".joblib"

INIT_POINTS == 5
N_ITER == 25

\* a hyperparameter is held in hundredths: 0.01, the finest bound, is 1
SCALE == 100

\* the points the model takes on each axis of the search space, its ends
\* included, and the log-losses an evaluation can come to
Grid == 2
MaxLoss == 2

\* train.py lines 294-304, in hundredths
param_bounds ==
    [num_boost_round |-> << 100 * SCALE, 300 * SCALE >>,
     max_depth |-> << 3 * SCALE, 10 * SCALE >>,
     learning_rate |-> << 1, 10 >>,
     subsample |-> << 60, 100 >>,
     colsample_bytree |-> << 60, 100 >>,
     gamma |-> << 0, 5 * SCALE >>,
     reg_alpha |-> << 0, 1 * SCALE >>,
     reg_lambda |-> << 1 * SCALE, 5 * SCALE >>]

Fields == DOMAIN param_bounds

\* point k of Grid on the axis of field f
GridPoint(f, k) ==
    param_bounds[f][1] + ((param_bounds[f][2] - param_bounds[f][1]) * k) \div Grid

\* a point the optimizer probes: it draws every field from its bounds
Suggest(i, j) ==
    [f \in Fields |->
        IF f \in { "max_depth", "learning_rate", "colsample_bytree",
                   "reg_alpha" }
        THEN GridPoint(f, i) ELSE GridPoint(f, j)]

int_RoundsUp(x) == (x \div SCALE + 1) * SCALE

\* int(x) of a float that is not negative: the fraction is cut off
int(x) == (x \div SCALE) * SCALE

\* float(x) of a float
float(x) == x

\* xgb_eval, lines 265-284: the parameters a candidate is trained with
Effective(params) ==
    [params EXCEPT !.max_depth = int(@), !.num_boost_round = int(@)]

\* lines 317-327: the casts of the best parameters after the search
Casts(params) ==
    [params EXCEPT !.max_depth = int(@),
                   !.num_boost_round = int(@),
                   !.learning_rate = float(@),
                   !.subsample = float(@),
                   !.colsample_bytree = float(@),
                   !.gamma = int(@),
                   !.reg_alpha = float(@),
                   !.reg_lambda = int(@)]

\* _create_and_train_model, lines 356-391: the parameters of the final fit
FitParams(h) == [h EXCEPT !.num_boost_round = int(@)]

\* optimizer.max after one more evaluation: the first of the best ones
Max(b, e) == IF b = NoEval \/ e.target > b.target THEN e ELSE b

Top == stack[Len(stack)]

Pop == SubSeq(stack, 1, Len(stack) - 1)

\* where the caller goes on when function f has returned
After(f) ==
    CASE f = "_hyper_parameter_tuning" -> "after_tuning"
      [] f = "_create_and_train_model" -> "after_fit"
      [] f = "train_model" -> "after_train"
      [] OTHER -> ""

\* the outermost function returns value v, or function f returns it to its
\* caller
Return(v) ==
    /\ stack' = Pop
    /\ ret' = v
    /\ tpc' = After(Top)
    /\ result' = IF Pop = << >> THEN v.kind ELSE result

CanStart_IgnoresOutcome(step) ==
    /\ task[step] = "pending"
    /\ \A p \in Parents(step) : task[p] \notin { "pending", "running" }

\* a task starts once the tasks it waits for have returned and the Output
\* of every task its condition groups test is True
CanStart(step) ==
    /\ task[step] = "pending"
    /\ \A p \in Parents(step) : task[p] \in Returned
    /\ \A g \in Guards(step) : task[g] = "True"

\* how the components that are run in one piece end: preprocess_data
\* returns True at line 75, build_container returns False from its except
\* branch, register_model and deploy_model let an exception out
Outcomes(step) ==
    CASE step = "preprocess_data" -> { "True" }
      [] step = "build_container" -> { "True", "False" }
      [] step = "register_model" -> { "True", "failed" }
      [] step = "deploy_model" -> { "True", "failed" }
      [] OTHER -> {}

\* the pipeline run starts a task
Start(step) ==
    /\ trainer /= "xgb_model.py"
    /\ CanStart(step)
    /\ task' = [task EXCEPT ![step] = "running"]
    /\ IF step = "train_model"
       THEN /\ trainer' = "train.py"
            /\ stack' = << "entrypoint" >>
            /\ tpc' = "fetch"
            /\ UNCHANGED epc
       ELSE IF step = "evaluate_model"
       THEN /\ epc' = "model"
            /\ UNCHANGED << trainer, stack, tpc >>
       ELSE UNCHANGED << trainer, stack, tpc, epc >>
    /\ UNCHANGED << exc, ret, evals, files, result, metrics >>
    /\ UNCHANGED << tuneVars, ingested >>
    /\ UNCHANGED << serveVars, dataVars >>

\* a component that is run in one piece ends
Finish(step) ==
    /\ task[step] = "running"
    /\ \E o \in Outcomes(step) : task' = [task EXCEPT ![step] = o]
    /\ UNCHANGED << trainer, stack, tpc, exc, ret, evals, files, result, epc,
                    metrics >>
    /\ UNCHANGED << tuneVars, ingested >>
    /\ UNCHANGED << serveVars, dataVars >>

\* train_model of model/xgb_model.py is called outside a pipeline run
CallTrainer ==
    /\ trainer = ""
    /\ \A t \in Range(PipelineSteps) : task[t] = "pending"
    /\ trainer' = "xgb_model.py"
    /\ stack' = << "train_model" >>
    /\ tpc' = "weights"
    /\ UNCHANGED << task, exc, ret, evals, files, result, epc, metrics >>
    /\ UNCHANGED << tuneVars, ingested >>
    /\ UNCHANGED << serveVars, dataVars >>

\* the innermost function is f, at label l, and no exception is in flight
At(f, l) == stack /= << >> /\ Top = f /\ tpc = l /\ exc = ""

\* train.py lines 399-464: fetch, derive, split, map labels, call train_model
FetchData ==
    /\ At("entrypoint", "fetch")
    /\ stack' = Append(stack, "train_model")
    /\ tpc' = "weights"
    /\ UNCHANGED << task, trainer, exc, ret, evals, files, result, epc,
                    metrics >>
    /\ UNCHANGED << tuneVars, ingested >>
    /\ UNCHANGED << serveVars, dataVars >>

\* the query of line 417 raises
FetchFails ==
    /\ At("entrypoint", "fetch")
    /\ exc' = "GoogleAPIError"
    /\ UNCHANGED << task, trainer, stack, tpc, ret, evals, files, result, epc,
                    metrics >>
    /\ UNCHANGED << tuneVars, ingested >>
    /\ UNCHANGED << serveVars, dataVars >>

\* train_model: class weights, then the call of _hyper_parameter_tuning
CallTuning ==
    /\ At("train_model", "weights")
    /\ stack' = Append(stack, "_hyper_parameter_tuning")
    /\ tpc' = "maximize"
    /\ evals' = 0
    /\ best' = NoEval
    /\ last' = NoEval
    /\ UNCHANGED << task, trainer, exc, ret, files, result, epc, metrics >>
    /\ UNCHANGED << h_params, fit_params, ingested >>
    /\ UNCHANGED << serveVars, dataVars >>

\* the optimizer evaluates one more candidate: xgb_eval returns its score
Evaluate ==
    /\ At("_hyper_parameter_tuning", "maximize")
    /\ evals < INIT_POINTS + N_ITER
    /\ evals' = evals + 1
    /\ \E i, j \in 0..Grid, loss \in 1..MaxLoss :
         /\ last' = [target |-> 0 - loss,
                     params |-> Suggest(i, j),
                     effective |-> Effective(Suggest(i, j))]
         /\ best' = Max(best, last')
    /\ UNCHANGED << task, trainer, stack, tpc, exc, ret, files, result, epc,
                    metrics >>
    /\ UNCHANGED << h_params, fit_params, ingested >>
    /\ UNCHANGED << serveVars, dataVars >>

\* xgb.train raises for the candidate: the optimizer lets it through
EvaluateRaises ==
    /\ At("_hyper_parameter_tuning", "maximize")
    /\ evals < INIT_POINTS + N_ITER
    /\ exc' = "XGBoostError"
    /\ UNCHANGED << task, trainer, stack, tpc, ret, evals, files, result, epc,
                    metrics >>
    /\ UNCHANGED << tuneVars, ingested >>
    /\ UNCHANGED << serveVars, dataVars >>

\* all candidates evaluated: the best one is cast and returned
TuningReturns ==
    /\ At("_hyper_parameter_tuning", "maximize")
    /\ evals = INIT_POINTS + N_ITER
    /\ Return(Params)
    /\ h_params' = Casts(best.params)
    /\ UNCHANGED << task, trainer, exc, evals, files, epc, metrics >>
    /\ UNCHANGED << best, last, fit_params, ingested >>
    /\ UNCHANGED << serveVars, dataVars >>

\* what function f of the file does with an exception raised inside it
Handler(file, f) ==
    IF /\ file = "xgb_model.py"
       /\ f \in { "_hyper_parameter_tuning", "_create_and_train_model" }
    THEN "return None"
    ELSE IF f = "entrypoint" THEN "raise e"
    ELSE "no handler"

\* xgb_model.py lines 217-218 and 285-286: except Exception: return None
ReturnNone ==
    /\ stack /= << >> /\ exc /= ""
    /\ Handler(trainer, Top) = "return None"
    /\ Return(None)
    /\ exc' = ""
    /\ UNCHANGED << task, trainer, evals, files, epc, metrics >>
    /\ UNCHANGED << tuneVars, ingested >>
    /\ UNCHANGED << serveVars, dataVars >>

\* the exception leaves the function: it has no handler, or the handler of
\* the entrypoint (train.py lines 492-494) logs it and raises it again
Propagate ==
    /\ stack /= << >> /\ exc /= ""
    /\ Handler(trainer, Top) /= "return None"
    /\ stack' = Pop
    /\ result' = IF Pop = << >> THEN "raised" ELSE result
    /\ UNCHANGED << task, trainer, tpc, exc, ret, evals, files, epc,
                    metrics >>
    /\ UNCHANGED << tuneVars, ingested >>
    /\ UNCHANGED << serveVars, dataVars >>

\* train_model after tuning: train.py lines 207-211, xgb_model.py 91-94
CheckTuning ==
    /\ At("train_model", "after_tuning")
    /\ IF ret = None
       THEN IF trainer = "train.py"
            THEN /\ Return(None)
                 /\ UNCHANGED exc
            ELSE /\ exc' = "ValueError"
                 /\ UNCHANGED << stack, tpc, ret, result >>
       ELSE /\ stack' = Append(stack, "_create_and_train_model")
            /\ tpc' = "fit"
            /\ UNCHANGED << exc, ret, result >>
    /\ UNCHANGED << task, trainer, evals, files, epc, metrics >>
    /\ UNCHANGED << tuneVars, ingested >>
    /\ UNCHANGED << serveVars, dataVars >>

\* _create_and_train_model returns the booster and the test matrix
Fit ==
    /\ At("_create_and_train_model", "fit")
    /\ Return(Pair(1, 1))
    /\ fit_params' = FitParams(h_params)
    /\ UNCHANGED << task, trainer, exc, evals, files, epc, metrics >>
    /\ UNCHANGED << best, last, h_params, ingested >>
    /\ UNCHANGED << serveVars, dataVars >>

\* xgb.DMatrix or xgb.train raises in _create_and_train_model
FitRaises ==
    /\ At("_create_and_train_model", "fit")
    /\ exc' = "XGBoostError"
    /\ UNCHANGED << task, trainer, stack, tpc, ret, evals, files, result, epc,
                    metrics >>
    /\ UNCHANGED << tuneVars, ingested >>
    /\ UNCHANGED << serveVars, dataVars >>

\* train_model after the fit: `xgb_model, _x_test = ...` unpacks what was
\* returned, then train.py lines 220-223, xgb_model.py 103-106
CheckFit ==
    /\ At("train_model", "after_fit")
    /\ IF ret.kind /= "tuple"
       THEN /\ exc' = "TypeError"
            /\ UNCHANGED << stack, tpc, ret, result >>
       ELSE /\ Return(IF ret.model = 0 THEN None ELSE ret)
            /\ UNCHANGED exc
    /\ UNCHANGED << task, trainer, evals, files, epc, metrics >>
    /\ UNCHANGED << tuneVars, ingested >>
    /\ UNCHANGED << serveVars, dataVars >>

\* the entrypoint after train_model: the unpacking of line 457, then the
\* test of lines 466-468
CheckTraining ==
    /\ At("entrypoint", "after_train")
    /\ IF ret.kind /= "tuple"
       THEN /\ exc' = "TypeError"
            /\ UNCHANGED << stack, tpc, ret, result >>
       ELSE IF ret.model = 0 \/ ret.x_test = 0
       THEN /\ stack' = << >>
            /\ result' = "False"
            /\ UNCHANGED << tpc, exc, ret >>
       ELSE /\ tpc' = "model"
            /\ UNCHANGED << stack, exc, ret, result >>
    /\ UNCHANGED << task, trainer, evals, files, epc, metrics >>
    /\ UNCHANGED << tuneVars, ingested >>
    /\ UNCHANGED << serveVars, dataVars >>

\* the artifacts in the order lines 474, 478 and 482 write them
Outputs == << "model", "xtest", "ytest" >>

\* one artifact is written: joblib.dump, save_binary, np.save and rename;
\* after the last the entrypoint returns True
Save ==
    /\ stack /= << >> /\ Top = "entrypoint" /\ exc = ""
    /\ tpc \in Range(Outputs)
    /\ files' = [files EXCEPT ![tpc] = "complete"]
    /\ IF tpc = "ytest"
       THEN /\ stack' = << >>
            /\ result' = "True"
            /\ UNCHANGED tpc
       ELSE /\ tpc' = Outputs[IndexOf(Outputs, tpc) + 1]
            /\ UNCHANGED << stack, result >>
    /\ UNCHANGED << task, trainer, exc, ret, evals, epc, metrics >>
    /\ UNCHANGED << tuneVars, ingested >>
    /\ UNCHANGED << serveVars, dataVars >>

\* the write raises: nothing or a part of the file is on the disk
SaveFails ==
    /\ stack /= << >> /\ Top = "entrypoint" /\ exc = ""
    /\ tpc \in Range(Outputs)
    /\ \E left \in { "absent", "partial" } :
         files' = [files EXCEPT ![tpc] = left]
    /\ exc' = "OSError"
    /\ UNCHANGED << task, trainer, stack, tpc, ret, evals, result, epc,
                    metrics >>
    /\ UNCHANGED << tuneVars, ingested >>
    /\ UNCHANGED << serveVars, dataVars >>

\* the training task ends as its entrypoint did
TaskEnds ==
    /\ task["train_model"] = "running"
    /\ stack = << >> /\ result /= ""
    /\ task' = [task EXCEPT !["train_model"] =
                  IF result = "raised" THEN "failed" ELSE result]
    /\ UNCHANGED << trainer, stack, tpc, exc, ret, evals, files, result, epc,
                    metrics >>
    /\ UNCHANGED << tuneVars, ingested >>
    /\ UNCHANGED << serveVars, dataVars >>

\* the steps of evaluate.py inside its try block, lines 66-75
Inputs == << "model", "xtest", "ytest", "score" >>

\* evaluate.py lines 66-69: joblib.load, xgb.DMatrix, np.load
EvalLoad ==
    /\ task["evaluate_model"] = "running"
    /\ epc \in { "model", "xtest", "ytest" }
    /\ epc' = Inputs[IndexOf(Inputs, epc) + 1]
    /\ UNCHANGED << task, trainer, stack, tpc, exc, ret, evals, files, result,
                    metrics >>
    /\ UNCHANGED << tuneVars, ingested >>
    /\ UNCHANGED << serveVars, dataVars >>

\* lines 73-75: the inner evaluate_model scores the test set
EvalScore ==
    /\ task["evaluate_model"] = "running"
    /\ epc = "score"
    /\ metrics' = "computed"
    /\ epc' = "log"
    /\ UNCHANGED << task, trainer, stack, tpc, exc, ret, evals, files,
                    result >>
    /\ UNCHANGED << tuneVars, ingested >>
    /\ UNCHANGED << serveVars, dataVars >>

\* lines 77-87: the metrics are logged and the entrypoint returns True
EvalLog ==
    /\ task["evaluate_model"] = "running"
    /\ epc = "log"
    /\ metrics' = "logged"
    /\ epc' = ""
    /\ task' = [task EXCEPT !["evaluate_model"] = "True"]
    /\ UNCHANGED << trainer, stack, tpc, exc, ret, evals, files, result >>
    /\ UNCHANGED << tuneVars, ingested >>
    /\ UNCHANGED << serveVars, dataVars >>

OnEvaluateError_Swallowed == "True"

\* lines 83-85: except Exception: logger.exception(...); raise e
OnEvaluateError == "failed"

\* a load or the scoring raises
EvalRaises ==
    /\ task["evaluate_model"] = "running"
    /\ epc \in Range(Inputs)
    /\ epc' = ""
    /\ task' = [task EXCEPT !["evaluate_model"] = OnEvaluateError]
    /\ UNCHANGED << trainer, stack, tpc, exc, ret, evals, files, result,
                    metrics >>
    /\ UNCHANGED << tuneVars, ingested >>
    /\ UNCHANGED << serveVars, dataVars >>

NextRun ==
    \/ \E step \in Range(PipelineSteps) : Start(step)
    \/ \E step \in Range(PipelineSteps) : Finish(step)
    \/ CallTrainer
    \/ FetchData
    \/ FetchFails
    \/ CallTuning
    \/ Evaluate
    \/ EvaluateRaises
    \/ TuningReturns
    \/ ReturnNone
    \/ Propagate
    \/ CheckTuning
    \/ Fit
    \/ FitRaises
    \/ CheckFit
    \/ CheckTraining
    \/ Save
    \/ SaveFails
    \/ TaskEnds
    \/ EvalLoad
    \/ EvalScore
    \/ EvalLog
    \/ EvalRaises

\* nothing is served while the pipeline runs
InitPipeline ==
    /\ InitWith([r \in Req |-> {}])
    /\ AIP_STORAGE_URI = ""
    /\ storage = Storage(TRUE, << Folder, ModelA >>, TRUE)

SpecRun == InitPipeline /\ [][NextRun]_vars

\* a function of the training step is left in this step
Leaves(f) == stack /= << >> /\ Top = f /\ stack' = Pop

\* C15: when training a candidate raises during the search, no exception
\* leaves _hyper_parameter_tuning: the function returns None to train_model.
C15_TuningFailureReturnsNone ==
    [][(Leaves("_hyper_parameter_tuning") /\ exc /= "") =>
          (exc' = "" /\ ret' = None)]_vars

\* what xgb_model.py does and train.py does not
LibraryTuningReturnsNone ==
    [][(/\ trainer = "xgb_model.py"
        /\ Leaves("_hyper_parameter_tuning") /\ exc /= "") =>
          (exc' = "" /\ ret' = None)]_vars

\* the final fit has failed: its exception is in flight in train_model, or
\* _create_and_train_model has returned None
FitFailed ==
    /\ stack /= << >> /\ Top = "train_model"
    /\ tpc \in { "fit", "after_fit" }
    /\ (exc /= "" \/ ret = None)

\* C16: when the final fit fails, train_model returns None to its caller:
\* it is not left by an exception, the one of the fit or another one.
C16_FitFailureReturnsNone ==
    [][(FitFailed /\ Leaves("train_model")) =>
          (exc' = "" /\ ret' = None)]_vars

\* the entrypoint of the training component has ended
TrainingEnded == trainer = "train.py" /\ stack = << >> /\ result /= ""

AllWritten == \A f \in Range(Outputs) : files[f] = "complete"

\* C17: the training entrypoint ends by returning a boolean: True exactly
\* when the three artifacts were written, and False, not an exception, when
\* tuning or the final fit failed.
C17_EntrypointReturnsBoolean ==
    TrainingEnded =>
       /\ result \in { "True", "False" }
       /\ result = "True" <=> AllWritten
       /\ exc = "XGBoostError" => result = "False"

\* what the code does: True exactly when the artifacts were written, and an
\* exception otherwise
EntrypointReturnsTrueOrRaises ==
    TrainingEnded =>
       /\ result \in { "True", "raised" }
       /\ result = "True" <=> AllWritten
       /\ result = "raised" <=> exc /= ""

\* C18: a run of the training entrypoint that ends in failure leaves no
\* complete model artifact at model_output.path.
C18_NoModelArtifactOnFailure ==
    (TrainingEnded /\ result /= "True") => files.model /= "complete"

Downstream ==
    { "evaluate_model", "build_container", "register_model", "deploy_model" }

\* C19: when the training step has failed, by an exception or by returning
\* False, none of evaluate, build, register and deploy is or has been
\* started.
C19_NoDownstreamAfterTrainFailure ==
    /\ [](task["train_model"] \in { "failed", "False" } =>
            \A t \in Downstream : task[t] = "pending")
    /\ [][\A t \in Downstream :
            (task[t] = "pending" /\ task'[t] /= "pending") =>
               task["train_model"] = "True"]_vars

\* tuning raised after some candidates, the training task failed, and the
\* run is over with everything downstream not started
C19_Witness ==
    /\ task["train_model"] = "failed"
    /\ exc = "XGBoostError" /\ evals > 0 /\ evals < INIT_POINTS + N_ITER
    /\ task["preprocess_data"] = "True"
    /\ \A t \in Downstream : task[t] = "pending"

\* another task of the pipeline was started after the training one
C19_DownstreamStarted ==
    /\ task["train_model"] = "True"
    /\ task["deploy_model"] = "True"

\* C20: when the evaluation step cannot load the model, the test features
\* or the test labels, or scoring raises, the task fails: it does not return
\* True, and no metrics are logged that were not computed from the test set.
C20_EvaluateFailureSurfaces ==
    /\ [][(/\ task["evaluate_model"] = "running"
           /\ task'["evaluate_model"] /= "running"
           /\ epc /= "log") =>
             (task'["evaluate_model"] = "failed" /\ metrics' /= "logged")]_vars
    /\ [](task["evaluate_model"] = "True" <=> metrics = "logged")
    /\ [][(metrics /= "logged" /\ metrics' = "logged") =>
            metrics = "computed"]_vars

\* the evaluation failed before any metric was computed, and the run went
\* no further
C20_Witness ==
    /\ task["evaluate_model"] = "failed"
    /\ task["train_model"] = "True"
    /\ metrics = "none"
    /\ task["build_container"] = "pending"

(* ---------------------------------------------------------------------- *)
(* The hyperparameter search and its result                                *)
(* ---------------------------------------------------------------------- *)

\* the fields the post-search casts turn into integers
IntegerFields == { "num_boost_round", "max_depth" }

\* C24: whatever the search evaluated, every field of the configuration
\* _hyper_parameter_tuning returns lies within its bounds after the casts,
\* and the boosting rounds and the maximum depth are whole numbers
C24_ReturnedConfigInBounds ==
    h_params /= NoParams =>
        /\ \A f \in Fields :
             /\ param_bounds[f][1] <= h_params[f]
             /\ h_params[f] <= param_bounds[f][2]
        /\ \A f \in IntegerFields : h_params[f] % SCALE = 0

\* a configuration was returned whose depth the cast had to cut
C24_Witness ==
    /\ h_params /= NoParams
    /\ best.params.max_depth % SCALE /= 0
    /\ h_params.max_depth = int(best.params.max_depth)

\* optimizer.max is never worse than the evaluation made last, so its
\* target is the maximum of the targets evaluated
BestIsMaximum == last /= NoEval => best.target >= last.target

\* C25: the configuration returned and used for the final fit is the best
\* one evaluated, and each of its fields has the value that evaluation
\* trained its model with
C25_ReturnedIsBestAsTrained ==
    /\ BestIsMaximum
    /\ h_params /= NoParams => h_params = best.effective
    /\ fit_params /= NoParams => fit_params = h_params

(* ---------------------------------------------------------------------- *)
(* The order of the pipeline steps                                         *)
(* ---------------------------------------------------------------------- *)

\* a step starts only after the step before it has returned
StartsAfterPredecessorReturned ==
    \A i \in 2..Len(PipelineSteps) :
        task[PipelineSteps[i]] /= "pending" =>
            task[PipelineSteps[i - 1]] \in Returned

\* C28: a step of the pipeline has started only if the step before it
\* completed and returned True
C28_EachStepAfterTrue ==
    \A i \in 2..Len(PipelineSteps) :
        task[PipelineSteps[i]] /= "pending" =>
            task[PipelineSteps[i - 1]] = "True"

\* C30: preprocess_data has returned True only after the latest file was
\* ingested into the feature-store table
C30_TrueOnlyAfterIngestion ==
    task["preprocess_data"] = "True" => ingested > 0


(* ---------------------------------------------------------------------- *)
(* Requests that are rejected before the model is needed                   *)
(* ---------------------------------------------------------------------- *)

\* what the accessor holds: the model, the lock, the location and what the
\* loads have done so far
accessor ==
    << xgb_model, model_lock, GCS_MODEL_PATH, listed, downloaded,
       deserialized, artifact >>

\* thread r has been answered by one of the checks before the lock
RejectedRequest(r) ==
    request[r] /= 0 /\ Handled[request[r]].stage = "respond"

\* C29: a POST /predict that is rejected by the content-type, parse, shape
\* or arity check never holds model_lock and never starts a load, and the
\* step that rejects it leaves the model and the lock as they were, also
\* while no model is loaded
C29_RejectionLeavesAccessor ==
    /\ [](\A r \in Req :
            RejectedRequest(r) =>
                /\ pc[r] = "done"
                /\ model_lock /= r
                /\ model[r] = 0 /\ model_blob[r] = NoBlob /\ failed[r] = "")
    /\ [][\A r \in Req :
            (~RejectedRequest(r) /\ RejectedRequest(r)') =>
                /\ pc[r] = "idle"
                /\ accessor' = accessor]_vars

\* a request with the wrong number of features was rejected while no model
\* was loaded and another thread was inside the with block, loading
C29_Witness ==
    \E r, o \in Req :
        /\ RejectedRequest(r)
        /\ response[r].status = 400
        /\ response[r].error = "Invalid number of parameters."
        /\ xgb_model = 0
        /\ model_lock = o /\ pc[o] = "load"
        /\ listed = 0


(* ---------------------------------------------------------------------- *)
(* The preparation of the training data, and the inference path on the     *)
(* same records                                                            *)
(* ---------------------------------------------------------------------- *)

\* train.py lines 404-418: the table the query returned and the sample
\* taken from it
FetchTable ==
    \E seed \in 1..MaxSeed, n \in 3..MaxRows :
        \E y \in [1..n -> Codes] :
            /\ heap = << TrainingTable(seed, y) >>
            /\ env = [NoEnv EXCEPT !.df = 1]
            /\ labels = NoLabels
            /\ sample_weight = NoWeights
            /\ dpc = "derive"

\* line 423: mh = MentalHealthData(df); training_df = mh.get_data()
Derive ==
    /\ dpc = "derive"
    /\ LET mh == NewMentalHealthData(heap, env.df) IN
       /\ heap' = mh.heap
       /\ env' = [env EXCEPT !.training_df = mh.ref]
    /\ dpc' = "twice"
    /\ UNCHANGED << labels, sample_weight >>
    /\ UNCHANGED << serveVars, runVars >>

\* the deriver is run on the same table a second time
DeriveTwice ==
    /\ dpc = "twice"
    /\ LET mh == NewMentalHealthData(heap, env.df) IN
       /\ heap' = mh.heap
       /\ env' = [env EXCEPT !.twice = mh.ref]
    /\ dpc' = "again"
    /\ UNCHANGED << labels, sample_weight >>
    /\ UNCHANGED << serveVars, runVars >>

\* the deriver is run on the table it produced
DeriveAgain ==
    /\ dpc = "again"
    /\ LET mh == NewMentalHealthData(heap, env.training_df) IN
       /\ heap' = mh.heap
       /\ env' = [env EXCEPT !.again = mh.ref]
    /\ dpc' = "serve"
    /\ UNCHANGED << labels, sample_weight >>
    /\ UNCHANGED << serveVars, runVars >>

\* predictor.py: _preprocess_input on a request that holds the records of
\* the table, the keys in either order
Serve ==
    /\ dpc = "serve"
    /\ \E data \in { Instances(heap[env.df]),
                     Reordered(Instances(heap[env.df])) } :
         /\ heap' = Append(heap, PreprocessInput(data).df)
         /\ env' = [env EXCEPT !.served = Len(heap) + 1]
    /\ dpc' = "drop"
    /\ UNCHANGED << labels, sample_weight >>
    /\ UNCHANGED << serveVars, runVars >>

\* lines 429-430: X, y = training_df.drop(columns=[target]),
\* training_df[target]
DropTarget ==
    /\ dpc = "drop"
    /\ heap' = Append(heap, Drop(heap[env.training_df], TARGET).df)
    /\ env' = [env EXCEPT !.X = Len(heap) + 1]
    /\ labels' = [labels EXCEPT !.y = Column(heap[env.training_df], TARGET)]
    /\ dpc' = "split"
    /\ UNCHANGED sample_weight
    /\ UNCHANGED << serveVars, runVars >>

\* lines 434-446: the two train_test_split calls cut the labels into a
\* training, a validation and a test part.  The rows are shuffled first:
\* the order of the rows of the table stands for the order after the
\* shuffle.  The rows are taken whatever their classes are.
Split ==
    /\ dpc = "split"
    /\ LET first == train_test_split(labels.y, 4)
           second == train_test_split(first.test, 5)
       IN  labels' = [labels EXCEPT !.y_train = first.train,
                                    !.y_val = second.train,
                                    !.y_test = second.test]
    /\ dpc' = "map"
    /\ UNCHANGED << heap, env, sample_weight >>
    /\ UNCHANGED << serveVars, runVars >>

\* lines 448-450: target_label_mapping on each of the three parts
MapLabels ==
    /\ dpc = "map"
    /\ labels' = [labels EXCEPT
          !._y_train = target_label_mapping(labels.y_train),
          !._y_val = target_label_mapping(labels.y_val),
          !._y_test = target_label_mapping(labels.y_test)]
    /\ dpc' = "weights"
    /\ UNCHANGED << heap, env, sample_weight >>
    /\ UNCHANGED << serveVars, runVars >>

\* train_model, lines 189-196: the sample weights, or the KeyError of the
\* lookup
Weigh ==
    /\ dpc = "weights"
    /\ sample_weight' = SampleWeight(labels._y_train)
    /\ dpc' = IF sample_weight'.exc = "" THEN "tune" ELSE "raised"
    /\ UNCHANGED << heap, env, labels >>
    /\ UNCHANGED << serveVars, runVars >>

NextData ==
    \/ Derive
    \/ DeriveTwice
    \/ DeriveAgain
    \/ Serve
    \/ DropTarget
    \/ Split
    \/ MapLabels
    \/ Weigh

InitData ==
    /\ InitServing([r \in Req |-> {}])
    /\ AIP_STORAGE_URI = ""
    /\ storage = Storage(TRUE, << Folder, ModelA >>, TRUE)
    /\ InitRun
    /\ FetchTable

SpecData == InitData /\ [][NextData]_vars

\* the labels have been mapped
Mapped == dpc \in { "weights", "tune", "raised" }

\* the code of a dense label
InverseLookup(d) ==
    CASE d = 0 -> 1
      [] d = 1 -> 2
      [] d = 2 -> 3
      [] d = 3 -> 9

RoundTrip(raw, dense) ==
    /\ Len(dense) = Len(raw)
    /\ \A i \in 1..Len(raw) :
         dense[i] \in 0..3 /\ InverseLookup(dense[i]) = raw[i]

\* C21: the label map is injective on the four codes and its image is
\* 0..3; the training, validation and test labels are all mapped by it, and
\* the inverse lookup of a mapped vector gives back the vector it was made
\* from, element by element
C21_LabelMapRoundTrip ==
    /\ \A c, d \in Codes : label_mapping(c) = label_mapping(d) => c = d
    /\ { label_mapping(c) : c \in Codes } = 0..3
    /\ Mapped =>
         /\ RoundTrip(labels.y_train, labels._y_train)
         /\ RoundTrip(labels.y_val, labels._y_val)
         /\ RoundTrip(labels.y_test, labels._y_test)

\* a table with all four codes was split and mapped
C21_Witness ==
    /\ Mapped
    /\ Range(labels.y) = Codes
    /\ Range(labels._y_train \o labels._y_val \o labels._y_test) = 0..3

\* the three composite columns, in the order the deriver adds them
Composites ==
    << "Physical_Mental_Interaction", "Income_Education_Interaction",
       "Mental_Health_Composite" >>

\* C22: the deriver run a second time on the same table gives the same
\* table, run on its own output it leaves the three composite columns (and
\* every other column) as they are, and no table that existed before a run
\* is changed by it
C22_DeriverIsPure ==
    /\ [](env.twice /= 0 => heap[env.twice] = heap[env.training_df])
    /\ [](env.again /= 0 =>
            /\ heap[env.again].cols = heap[env.training_df].cols
            /\ \A k \in 1..Len(Composites) :
                 Column(heap[env.again], Composites[k])
                    = Column(heap[env.training_df], Composites[k]))
    /\ [](env.training_df /= 0 =>
            /\ env.training_df /= env.df
            /\ heap[env.df].cols = FEATURE_IDS)
    /\ [][\A ref \in 1..Len(heap) : heap'[ref] = heap[ref]]_vars

\* the deriver has run on a table of the longest size, again on that table
\* and on its own output
C22_Witness ==
    /\ env.twice /= 0 /\ env.again /= 0
    /\ Len(heap[env.df].rows) = MaxRows
    /\ Range(Composites) \subseteq Range(heap[env.again].cols)
    /\ \E i \in 1..MaxRows :
         Column(heap[env.again], "Physical_Mental_Interaction")[i] > 1

\* C23: for the same records the inference path and the training path
\* build the same table: the 55 schema features in canonical order, then
\* the three composite columns, with the same values
C23_SameFeatureVector ==
    (env.X /= 0 /\ env.served /= 0) =>
        /\ heap[env.X].cols = EXPECTED_FEATURE_ORDER \o Composites
        /\ heap[env.served].cols = heap[env.X].cols
        /\ heap[env.served].rows = heap[env.X].rows

\* both paths have built their table from three records or more
C23_Witness ==
    /\ env.X /= 0 /\ env.served /= 0
    /\ Len(heap[env.X].rows) >= 3
    /\ Len(heap[env.X].cols) = ARITY + 3

\* the weight the claim gives row i of y
BalancedWeight(y, i) ==
    Frac(Len(y), Cardinality(Range(y)) * Count(y, y[i]))

\* C26: whatever classes the training labels hold, every row gets one
\* weight, n_rows / (n_classes_present * count of the row's class)
C26_BalancedSampleWeights ==
    sample_weight /= NoWeights =>
        /\ sample_weight.exc = ""
        /\ Len(sample_weight.w) = Len(labels._y_train)
        /\ \A i \in 1..Len(labels._y_train) :
             SameFrac(sample_weight.w[i],
                      BalancedWeight(labels._y_train, i))

\* when all classes up to the largest one are present, the weights are the
\* balanced ones
ContiguousLabelsAreBalanced ==
    (/\ sample_weight /= NoWeights
     /\ Range(labels._y_train) = 0..(Cardinality(Range(labels._y_train)) - 1))
        => C26_BalancedSampleWeights

\* the three lists of the schema, compared name by name
SchemaLockstep ==
    /\ ARITY = Len(EXPECTED_FEATURE_ORDER)
    /\ Len(FEATURE_IDS) = Len(EXPECTED_FEATURE_ORDER) + 1
    /\ FEATURE_IDS[Len(FEATURE_IDS)] = TARGET
    /\ \A i \in 1..Len(EXPECTED_FEATURE_ORDER) :
         EXPECTED_FEATURE_ORDER[i] = FEATURE_IDS[i]
    /\ Len(FEATURE_NAMES) = Len(FEATURE_IDS)
    /\ \A i \in 1..Len(FEATURE_NAMES) :
         Normalize(FEATURE_NAMES[i]) = Spell(FEATURE_IDS[i])

\* C27: the arity literal is the length of EXPECTED_FEATURE_ORDER, which is
\* FEATURE_IDS without the target, which is FEATURE_NAMES after lower() and
\* lstrip('_'); so the tables of both paths have the columns of the schema
C27_SchemaLockstep ==
    /\ SchemaLockstep
    /\ env.X /= 0 =>
         SubSeq(heap[env.X].cols, 1, ARITY) = EXPECTED_FEATURE_ORDER
    /\ env.served /= 0 =>
         SubSeq(heap[env.served].cols, 1, ARITY) = EXPECTED_FEATURE_ORDER

\* the table of the training path, selected by FEATURE_IDS, and the table of
\* the inference path, selected by EXPECTED_FEATURE_ORDER, have been built,
\* and the names that differ before normalization are among their columns
C27_Witness ==
    /\ env.X /= 0 /\ env.served /= 0
    /\ heap[env.df].cols = FEATURE_IDS
    /\ Normalize(FEATURE_NAMES[IndexOf(FEATURE_IDS, "state")]) = Spell("state")
    /\ "state" \in Range(heap[env.served].cols)

====
